---- MODULE Spec2Model ----
(***************************************************************************)
(* A model of tplenv (src/src/main.rs): the placeholder scanner, the key   *)
(* resolver, the missing-key gate of run(), the values-document tree, the  *)
(* interactive pre-pass and the rendering pass.                            *)
(*                                                                         *)
(* Text is a sequence of one-character strings; offsets are the 0-based    *)
(* byte offsets of the source (At(s, i) is byte i), spans are [start, end).*)
(* Loops of the source are recursive functions over the loop index.        *)
(***************************************************************************)
EXTENDS Integers, Sequences, FiniteSets, TLC

VARIABLES
    run,    \* the locals and the observable effects of one execution of run()
    twin,   \* a second execution of run(), used to compare two executions
    scan,   \* one execution of collect_placeholders: input, position, result
    yq,     \* one call on the values document: root, path, result
    fmt,    \* one call of format_replacement_with_indent: arguments, result
    ctx     \* one call of extract_prompt_context: arguments, result

vars == <<run, twin, scan, yq, fmt, ctx>>

(***************************************************************************)
(* Text helpers.                                                           *)
(***************************************************************************)

\* F applied to the value of v (v is evaluated once).
Bind(v, F(_)) == CHOOSE y \in {F(x) : x \in {v}} : TRUE

\* A string literal as text (a sequence of one-character strings).
Chars(s) == [i \in 1..Len(s) |-> SubSeq(s, i, i)]

\* Byte i (0-based) of s, or "" past the end.
At(s, i) == IF i >= 0 /\ i < Len(s) THEN s[i + 1] ELSE ""

\* s[from..to) in the source's slice notation.
Slice(s, from, to) == SubSeq(s, from + 1, to)

Range(s) == {s[i] : i \in 1..Len(s)}

Min(S) == CHOOSE x \in S : \A y \in S : x <= y
Max(S) == CHOOSE x \in S : \A y \in S : x >= y

\* The concatenation of a sequence of texts.
Concat(texts) ==
    Bind(texts, LAMBDA ss :
      LET cat[i \in 0..Len(ss)] == IF i = 0 THEN <<>> ELSE cat[i - 1] \o ss[i]
      IN cat[Len(ss)])

StartsWithAt(s, i, p) ==
    /\ i + Len(p) <= Len(s)
    /\ \A k \in 1..Len(p) : s[i + k] = p[k]

Upper == {"A","B","C","D","E","F","G","H","I","J","K","L","M",
          "N","O","P","Q","R","S","T","U","V","W","X","Y","Z"}
Lower == {"a","b","c","d","e","f","g","h","i","j","k","l","m",
          "n","o","p","q","r","s","t","u","v","w","x","y","z"}
Digit == {"0","1","2","3","4","5","6","7","8","9"}

\* [A-Za-z_]
IdentStart == Upper \cup Lower \cup {"_"}
\* [A-Za-z0-9_]
WordChar == IdentStart \cup Digit
\* \s of the regex, char::is_whitespace of trim()
Whitespace == {" ", "\t", "\n", "\r", "\f"}

\* The first offset >= i whose byte is not in class (Len(s) when none).
SkipClass(s, i, class) ==
    Min({j \in i..Len(s) : j = Len(s) \/ s[j + 1] \notin class} \cup {Max({i, Len(s)})})

(***************************************************************************)
(* The placeholder regex (placeholder_regex) and its leftmost-first,       *)
(* greedy matching.  A match is [start, end, group, key]: group is the     *)
(* capture group that took part (1 values path, 2 {{IDENT}}, 3 ${IDENT},   *)
(* 4 $IDENT), key its text.  NoMatch has group 0.                          *)
(***************************************************************************)
NoMatch == [start |-> 0, end |-> 0, group |-> 0, key |-> <<>>]

ValuesPrefix == Chars(".Values.")

\* [A-Za-z0-9_]+(?:\.[A-Za-z0-9_]+)* from offset i: the offset after the
\* longest such run, or i when no segment starts at i.  The run ends before
\* the first '.' that no segment precedes or follows.
PathEnd(s, i) ==
    LET e    == SkipClass(s, i, WordChar \cup {"."})
        stop == {j \in i..(e - 1) :
                   At(s, j) = "." /\ (j = i \/ At(s, j + 1) \notin WordChar)}
    IN IF stop = {} THEN e ELSE Min(stop)

\* A variant of the identifier matcher that takes the first character only.
IdentEndFirstChar(s, i) == IF At(s, i) \in IdentStart THEN i + 1 ELSE i

\* [A-Za-z_][A-Za-z0-9_]* from offset i: the offset after it, or i.
IdentEnd(s, i) ==
    IF At(s, i) \in IdentStart THEN SkipClass(s, i + 1, WordChar) ELSE i

\* \{\{\s*(?:\.Values\.(path)|(ident))\s*\}\} anchored at offset i.
MatchBraces(s, i) ==
    IF ~StartsWithAt(s, i, <<"{", "{">>) THEN NoMatch
    ELSE
      Bind(SkipClass(s, i + 2, Whitespace), LAMBDA j :
        LET isVal == StartsWithAt(s, j, ValuesPrefix)
            k0    == IF isVal THEN j + Len(ValuesPrefix) ELSE j
        IN Bind(IF isVal THEN PathEnd(s, k0) ELSE IdentEnd(s, k0), LAMBDA k1 :
             LET q == SkipClass(s, k1, Whitespace)
             IN IF k1 > k0 /\ StartsWithAt(s, q, <<"}", "}">>)
                THEN [start |-> i, end |-> q + 2,
                      group |-> IF isVal THEN 1 ELSE 2, key |-> Slice(s, k0, k1)]
                ELSE NoMatch))

\* \$\{(ident)\} | \$(ident) anchored at offset i.
MatchDollar(s, i) ==
    IF At(s, i) # "$" THEN NoMatch
    ELSE IF At(s, i + 1) = "{"
    THEN Bind(IdentEnd(s, i + 2), LAMBDA e :
           IF e > i + 2 /\ At(s, e) = "}"
           THEN [start |-> i, end |-> e + 1, group |-> 3, key |-> Slice(s, i + 2, e)]
           ELSE NoMatch)
    ELSE Bind(IdentEnd(s, i + 1), LAMBDA e :
           IF e > i + 1
           THEN [start |-> i, end |-> e, group |-> 4, key |-> Slice(s, i + 1, e)]
           ELSE NoMatch)

\* The regex anchored at offset i: the first alternative that matches.
placeholder_regex(s, i) ==
    IF At(s, i) = "{" THEN MatchBraces(s, i) ELSE MatchDollar(s, i)

\* The leftmost match starting at or after offset pos (Regex::find_at).
FindFrom(s, pos) ==
    LET starts == {p \in pos..(Len(s) - 1) :
                     s[p + 1] \in {"{", "$"} /\ placeholder_regex(s, p).group # 0}
    IN IF starts = {} THEN NoMatch ELSE placeholder_regex(s, Min(starts))

\* re.captures_iter(input): the non-overlapping matches, left to right.
captures_iter(input) ==
    LET caps[pos \in 0..Len(input)] ==
          LET m == FindFrom(input, pos)
          IN IF m.group = 0 THEN <<>> ELSE <<m>> \o caps[m.end]
    IN caps[0]

\* extract_env_key: group 2, else 3, else 4 (exactly one of 1..4 took part).
extract_env_key(cap) == IF cap.group \in {2, 3, 4} THEN cap.key ELSE <<>>

NoKeys == [env_vars |-> {}, values_paths |-> {}]

\* collect_placeholders: the distinct env keys and values paths of the
\* captures of one text (BTreeSet::insert per capture).
collect_placeholders(input) ==
    Bind(captures_iter(input), LAMBDA caps :
      [env_vars     |-> {extract_env_key(caps[i]) : i \in {j \in 1..Len(caps) : caps[j].group # 1}},
       values_paths |-> {caps[i].key : i \in {j \in 1..Len(caps) : caps[j].group = 1}}])

\* collect_placeholders_all: the union over the batch.
collect_placeholders_all(templates) ==
    Bind([i \in 1..Len(templates) |-> collect_placeholders(templates[i])], LAMBDA per :
      [env_vars     |-> UNION {per[i].env_vars : i \in 1..Len(per)},
       values_paths |-> UNION {per[i].values_paths : i \in 1..Len(per)}])

(***************************************************************************)
(* Text: trimming, splitting, ordering, decimal text.                      *)
(***************************************************************************)

\* str::trim_end / trim_start / trim: strip whitespace.
TrimEnd(s) == SubSeq(s, 1, Max({0} \cup {i \in 1..Len(s) : s[i] \notin Whitespace}))

TrimStart(s) == SubSeq(s, SkipClass(s, 0, Whitespace) + 1, Len(s))

Trim(s) == TrimStart(TrimEnd(s))

\* str::split(sep): the pieces between the separators (never empty as a list).
SplitOn(text, sep) ==
    Bind(text, LAMBDA s :
      LET seps   == {i \in 1..Len(s) : s[i] = sep}
          n      == Cardinality(seps)
          cut(k) == IF k = 0 THEN 0
                    ELSE IF k = n + 1 THEN Len(s) + 1
                    ELSE CHOOSE i \in seps : Cardinality({j \in seps : j < i}) = k - 1
      IN [k \in 1..(n + 1) |-> SubSeq(s, cut(k - 1) + 1, cut(k) - 1)])

\* Byte order of the characters the model uses (ASCII order).
AsciiOrder == Chars("\t\n\f\r $'-.0123456789:ABCDEFGHIJKLMNOPQRSTUVWXYZ[]_abcdefghijklmnopqrstuvwxyz{|}")

CharCode(c) == CHOOSE i \in 1..Len(AsciiOrder) : AsciiOrder[i] = c

\* Ord for String: lexicographic by byte.
StrLess(a, b) ==
    LET diff == {i \in 1..Min({Len(a), Len(b)}) : a[i] # b[i]}
    IN IF diff = {} THEN Len(a) < Len(b)
       ELSE CharCode(a[Min(diff)]) < CharCode(b[Min(diff)])

\* A variant of the iteration that goes through the set downwards.
BTreeIterDescending(set) ==
    Bind(set, LAMBDA S :
      [i \in 1..Cardinality(S) |->
         CHOOSE x \in S : Cardinality({y \in S : StrLess(x, y)}) = i - 1])

\* Iteration order of a BTreeSet<String>: ascending.
BTreeIter(set) ==
    Bind(set, LAMBDA S :
      [i \in 1..Cardinality(S) |->
         CHOOSE x \in S : Cardinality({y \in S : StrLess(y, x)}) = i - 1])

DigitChar(d) == Chars("0123456789")[d + 1]

\* i64/u64 Display: decimal text.
NatText(n) ==
    LET text[m \in Nat] ==
          IF m < 10 THEN <<DigitChar(m)>> ELSE text[m \div 10] \o <<DigitChar(m % 10)>>
    IN text[n]

DecimalText(n) == IF n < 0 THEN <<"-">> \o NatText(-n) ELSE NatText(n)

(***************************************************************************)
(* The values document (serde_yaml::Value): a node is [k, v] with k one of *)
(* null, bool, num, str, seq, map.  A mapping keeps insertion order: v is  *)
(* a sequence of <<key, node>> pairs with distinct keys (keys are text).   *)
(***************************************************************************)
YNull == [k |-> "null", v |-> <<>>]
YBool(b) == [k |-> "bool", v |-> b]
YNum(n) == [k |-> "num", v |-> n]
YStr(s) == [k |-> "str", v |-> s]
YSeq(items) == [k |-> "seq", v |-> items]
YMap(pairs) == [k |-> "map", v |-> pairs]
Mapping_new == YMap(<<>>)

IsMapping(n) == n.k = "map"

None == [some |-> FALSE, val |-> <<>>]
Some(x) == [some |-> TRUE, val |-> x]

MapHas(m, key) == \E i \in 1..Len(m.v) : m.v[i][1] = key
MapIndex(m, key) == CHOOSE i \in 1..Len(m.v) : m.v[i][1] = key
\* Mapping::get
MapGet(m, key) == IF MapHas(m, key) THEN Some(m.v[MapIndex(m, key)][2]) ELSE None
\* Mapping::insert: replace in place, or append.
MapInsert(m, key, node) ==
    IF MapHas(m, key)
    THEN YMap([m.v EXCEPT ![MapIndex(m, key)] = <<key, node>>])
    ELSE YMap(Append(m.v, <<key, node>>))

\* A variant of the lookup that returns the node it stopped at when that
\* node is not a mapping and parts remain.
lookup_yaml_path_partial(root, path) ==
    Bind(SplitOn(path, "."), LAMBDA parts :
      LET cur[i \in 0..Len(parts)] ==
            IF i = 0 THEN Some(root)
            ELSE Bind(cur[i - 1], LAMBDA prev :
                   IF prev.some /\ IsMapping(prev.val)
                   THEN MapGet(prev.val, parts[i]) ELSE prev)
      IN cur[Len(parts)])

\* lookup_yaml_path: cur after each part of path.split('.'); None as soon as
\* cur is not a mapping or has no entry for the part.
lookup_yaml_path(root, path) ==
    Bind(SplitOn(path, "."), LAMBDA parts :
      LET cur[i \in 0..Len(parts)] ==
            IF i = 0 THEN Some(root)
            ELSE Bind(cur[i - 1], LAMBDA prev :
                   IF prev.some /\ IsMapping(prev.val)
                   THEN MapGet(prev.val, parts[i]) ELSE None)
      IN cur[Len(parts)])

\* A variant of set_yaml_path that leaves the document as it is when a node
\* on the way (the root included) is there and is not a mapping.
set_yaml_path_keeping_nodes(root, path, value) ==
    Bind(SplitOn(path, "."), LAMBDA parts :
      LET n == Len(parts)
          RECURSIVE Put(_, _)
          Put(cur, i) ==
            IF ~IsMapping(cur) THEN cur
            ELSE IF i = n THEN MapInsert(cur, parts[n], value)
            ELSE MapInsert(cur, parts[i],
                           Put(IF MapGet(cur, parts[i]).some
                               THEN MapGet(cur, parts[i]).val ELSE Mapping_new, i + 1))
      IN Put(root, 1))

\* set_yaml_path: entry[i] is the mapping the loop stands on before part
\* i + 1 (root or an entry, replaced by an empty mapping when it is not a
\* mapping); built[i] is that mapping once the loop has finished.  (The arm
\* for a non-mapping cur is never taken: root and every entry are made
\* mappings before the loop reaches them.)
set_yaml_path(root, path, value) ==
    Bind(SplitOn(path, "."), LAMBDA parts :
      LET n == Len(parts)
          entry[i \in 0..(n - 1)] ==
            IF i = 0 THEN (IF IsMapping(root) THEN root ELSE Mapping_new)
            ELSE Bind(entry[i - 1], LAMBDA cur :
                   Bind(MapGet(cur, parts[i]), LAMBDA got :
                     IF got.some /\ IsMapping(got.val) THEN got.val ELSE Mapping_new))
          built[i \in 0..(n - 1)] ==
            Bind(entry[i], LAMBDA cur :
              IF i = n - 1 THEN MapInsert(cur, parts[n], value)
              ELSE Bind(built[i + 1], LAMBDA sub : MapInsert(cur, parts[i + 1], sub)))
      IN built[0])

(***************************************************************************)
(* serde_yaml::to_string, for documents whose string leaves are single     *)
(* line: block style, one entry per line, nested mappings two columns      *)
(* deeper, sequences under a key at the key's column, the first line of a  *)
(* composite sequence item after "- ".                                     *)
(***************************************************************************)
IsDigits(s) == s # <<>> /\ \A i \in 1..Len(s) : s[i] \in Digit

\* A string scalar is quoted when plain it would read back as another type.
NeedsQuote(s) ==
    \/ s = <<>>
    \/ IsDigits(s)
    \/ s \in {Chars("true"), Chars("false"), Chars("null"), Chars("~")}
    \/ s[1] \in Whitespace \/ s[Len(s)] \in Whitespace

ScalarText(n) ==
    CASE n.k = "null" -> Chars("null")
      [] n.k = "bool" -> IF n.v THEN Chars("true") ELSE Chars("false")
      [] n.k = "num"  -> DecimalText(n.v)
      [] n.k = "str"  -> IF NeedsQuote(n.v) THEN <<"'">> \o n.v \o <<"'">> ELSE n.v
      [] n.k = "seq"  -> Chars("[]")
      [] n.k = "map"  -> Chars("{}")

IsInline(n) == n.k \in {"null", "bool", "num", "str"} \/ n.v = <<>>

IndentLines(ls, first, rest) ==
    Bind(ls, LAMBDA lines :
      [i \in 1..Len(lines) |-> (IF i = 1 THEN first ELSE rest) \o lines[i]])

\* The lines of a node in block style.
RECURSIVE YamlLines(_)
YamlLines(node) ==
    Bind(node, LAMBDA n :
      IF IsInline(n) THEN <<ScalarText(n)>>
      ELSE IF n.k = "seq"
      THEN Concat([i \in 1..Len(n.v) |->
                     IndentLines(YamlLines(n.v[i]), Chars("- "), Chars("  "))])
      ELSE Concat([i \in 1..Len(n.v) |->
                     LET key == ScalarText(YStr(n.v[i][1]))
                         val == n.v[i][2]
                     IN IF IsInline(val)
                        THEN <<key \o Chars(": ") \o ScalarText(val)>>
                        ELSE <<key \o <<":">>>> \o
                             (IF val.k = "seq" THEN YamlLines(val)
                              ELSE IndentLines(YamlLines(val), Chars("  "), Chars("  ")))]))

serde_yaml_to_string(n) ==
    Bind(YamlLines(n), LAMBDA lines :
      Concat([i \in 1..Len(lines) |-> lines[i] \o <<"\n">>]))

\* A variant of the stringification that trims the end of every text.
yaml_value_to_string_trimmed(v) ==
    CASE v.k = "null" -> <<>>
      [] v.k = "bool" -> IF v.v THEN Chars("true") ELSE Chars("false")
      [] v.k = "num"  -> DecimalText(v.v)
      [] OTHER        -> TrimEnd(IF v.k = "str" THEN v.v ELSE serde_yaml_to_string(v))

\* yaml_value_to_string: the text a resolved node is substituted as.
yaml_value_to_string(v) ==
    CASE v.k = "null" -> <<>>
      [] v.k = "bool" -> IF v.v THEN Chars("true") ELSE Chars("false")
      [] v.k = "num"  -> DecimalText(v.v)
      [] v.k = "str"  -> v.v
      [] OTHER        -> TrimEnd(serde_yaml_to_string(v))

(***************************************************************************)
(* Line context of an occurrence and indentation-aware reinsertion.        *)
(***************************************************************************)

\* input[..pos].rfind('\n').map(|i| i + 1).unwrap_or(0)
LineStart(input, pos) == Max({0} \cup {i \in 1..pos : input[i] = "\n"})

\* input[pos..].find('\n').map(|i| pos + i).unwrap_or(input.len())
LineEnd(input, pos) == Min({Len(input)} \cup {i \in pos..(Len(input) - 1) : input[i + 1] = "\n"})

\* chars().take_while(|c| c.is_whitespace()).collect()
LeadingWhitespace(s) == Slice(s, 0, SkipClass(s, 0, Whitespace))

Contains(s, c) == \E i \in 1..Len(s) : s[i] = c

EndsWith(s, c) == s # <<>> /\ s[Len(s)] = c

\* A variant of the continuation that puts the indentation after every
\* newline, the one that ends the value included.
indent_multiline_value_every_newline(value, input, match_start) ==
    IF ~Contains(value, "\n") THEN value
    ELSE LET line_start   == LineStart(input, match_start)
             before_match == Slice(input, line_start, match_start)
         IN Bind(LeadingWhitespace(before_match), LAMBDA indent :
              Concat([i \in 1..Len(value) |->
                        IF value[i] = "\n" THEN <<"\n">> \o indent ELSE <<value[i]>>]))

\* indent_multiline_value: the occurrence line's leading whitespace after
\* every newline of value that is not its last character.
indent_multiline_value(value, input, match_start) ==
    IF ~Contains(value, "\n") THEN value
    ELSE LET line_start   == LineStart(input, match_start)
             before_match == Slice(input, line_start, match_start)
         IN Bind(LeadingWhitespace(before_match), LAMBDA indent :
              Concat([i \in 1..Len(value) |->
                        IF value[i] = "\n" /\ i < Len(value)
                        THEN <<"\n">> \o indent ELSE <<value[i]>>]))

\* A variant of the promotion test that does not look at the text after
\* the occurrence.
should_use_yaml_block_scalar_prefix_only(input, match_start, match_end) ==
    LET line_start     == LineStart(input, match_start)
        prefix         == Slice(input, line_start, match_start)
        prefix_trimmed == TrimEnd(prefix)
    IN EndsWith(prefix_trimmed, ":") \/ EndsWith(prefix_trimmed, "-")

should_use_yaml_block_scalar(input, match_start, match_end) ==
    LET line_start     == LineStart(input, match_start)
        line_end       == LineEnd(input, match_end)
        prefix         == Slice(input, line_start, match_start)
        suffix         == Slice(input, match_end, line_end)
        prefix_trimmed == TrimEnd(prefix)
        suffix_trimmed == Trim(suffix)
    IN /\ (EndsWith(prefix_trimmed, ":") \/ EndsWith(prefix_trimmed, "-"))
       /\ suffix_trimmed = <<>>

\* The number of '\n' that end value.
TrailingNewlines(value) ==
    Len(value) - Max({0} \cup {i \in 1..Len(value) : value[i] # "\n"})

\* A variant that takes one trailing newline for a trailing empty line.
has_trailing_empty_lines_one(value) == TrailingNewlines(value) > 0

has_trailing_empty_lines(value) == TrailingNewlines(value) > 1

\* str::split_inclusive('\n'): the pieces, each ending with its '\n'.
SplitInclusive(text) ==
    Bind(text, LAMBDA s :
      LET ends   == {i \in 1..Len(s) : s[i] = "\n" \/ i = Len(s)}
          cut(k) == IF k = 0 THEN 0
                    ELSE CHOOSE i \in ends : Cardinality({j \in ends : j < i}) = k - 1
      IN [k \in 1..Cardinality(ends) |-> SubSeq(s, cut(k - 1) + 1, cut(k))])

indent_every_line(value, indent) ==
    Bind(SplitInclusive(value), LAMBDA parts :
      Concat([i \in 1..Len(parts) |-> indent \o parts[i]]))

format_as_yaml_block_scalar(value, input, match_start) ==
    LET line_start     == LineStart(input, match_start)
        line_prefix    == Slice(input, line_start, match_start)
        line_indent    == LeadingWhitespace(line_prefix)
        content_indent == line_indent \o Chars("  ")
        indicator      == IF has_trailing_empty_lines(value) THEN Chars("|+") ELSE Chars("|")
    IN Bind(content_indent, LAMBDA ind :
         indicator \o <<"\n">> \o indent_every_line(value, ind))

format_replacement_with_indent(value, input, match_start, match_end) ==
    IF ~Contains(value, "\n") THEN value
    ELSE IF should_use_yaml_block_scalar(input, match_start, match_end)
    THEN format_as_yaml_block_scalar(value, input, match_start)
    ELSE indent_multiline_value(value, input, match_start)

(***************************************************************************)
(* Key/value maps (HashMap<String, String>) as functions on text.          *)
(***************************************************************************)
EmptyMap == [x \in {} |-> <<>>]
MapPut(f, key, val) == [x \in DOMAIN f \cup {key} |-> IF x = key THEN val ELSE f[x]]
\* HashMap::get(key).cloned().unwrap_or_default()
GetOrDefault(f, key) == IF key \in DOMAIN f THEN f[key] ELSE <<>>

\* A for loop with a mutable accumulator: Op(acc, item) for each item in order.
FoldLeft(Op(_, _), init, items) ==
    Bind(items, LAMBDA xs :
      LET acc[i \in 0..Len(xs)] ==
            IF i = 0 THEN init ELSE Bind(acc[i - 1], LAMBDA a : Op(a, xs[i]))
      IN acc[Len(xs)])

\* env_var_values_path: "environment.<VAR>"
env_var_values_path(var) == Chars("environment.") \o var

\* strip_prefix("environment.")
HasEnvPrefix(key) == StartsWithAt(key, 0, Chars("environment."))
StripEnvPrefix(key) == Slice(key, Len(Chars("environment.")), Len(key))

\* prompted_environment_values: the environment.* entries, later ones win.
prompted_environment_values(prompted_values) ==
    FoldLeft(LAMBDA out, kv :
               IF HasEnvPrefix(kv[1]) THEN MapPut(out, StripEnvPrefix(kv[1]), kv[2]) ELSE out,
             EmptyMap, prompted_values)

\* env::var_os(name) on the process environment os_env (a function on names).
var_os(os_env, name) == IF name \in DOMAIN os_env THEN Some(os_env[name]) ELSE None

(***************************************************************************)
(* The interactive pre-pass: prompt order, prompt paths, the prompts.      *)
(***************************************************************************)

\* The key a capture is prompted under: the values path as written, an env
\* key as environment.<KEY>.
PromptKey(cap) ==
    IF cap.group = 1 THEN cap.key ELSE env_var_values_path(extract_env_key(cap))

\* A variant of collect_prompt_order that lists the keys in the order of
\* their text.
collect_prompt_order_sorted(templates) ==
    BTreeIter(UNION {{PromptKey(captures_iter(templates[t])[i]) :
                        i \in 1..Len(captures_iter(templates[t]))} :
                     t \in 1..Len(templates)})

\* collect_prompt_order: every prompt key once, by first occurrence.
collect_prompt_order(templates) ==
    FoldLeft(LAMBDA out, input :
               FoldLeft(LAMBDA o, cap :
                          IF PromptKey(cap) \in Range(o) THEN o ELSE Append(o, PromptKey(cap)),
                        out, captures_iter(input)),
             <<>>, templates)

\* collect_prompt_paths: the values paths, and environment.<VAR> for the env
\* keys that are not skipped.
collect_prompt_paths(values_paths, env_vars, include_environment_vars, skip_existing_env_vars) ==
    values_paths \cup
    (IF include_environment_vars
     THEN {env_var_values_path(var) : var \in env_vars \ skip_existing_env_vars}
     ELSE {})

\* rank.get(k).unwrap_or(usize::MAX): the index of k in prompt_order.
RankOf(prompt_order, k) ==
    IF k \in Range(prompt_order)
    THEN CHOOSE i \in 1..Len(prompt_order) : prompt_order[i] = k
    ELSE Len(prompt_order) + 1

\* sort_by_key (stable) of paths by rank: a path goes after the paths of
\* lower rank and the earlier paths of its own rank.
SortByRank(paths, prompt_order) ==
    Bind([i \in 1..Len(paths) |-> RankOf(prompt_order, paths[i])], LAMBDA rank :
      LET place(i) == 1 + Cardinality({j \in 1..Len(rank) :
                            rank[j] < rank[i] \/ (rank[j] = rank[i] /\ j < i)})
      IN [k \in 1..Len(rank) |-> paths[CHOOSE i \in 1..Len(rank) : place(i) = k]])

\* prompt_for_yaml_key: the line read, or the default on an empty line (a
\* read at end of input gives the empty line).
prompt_for_yaml_key(default, entered) ==
    IF entered = <<>>
    THEN IF default.some THEN default.val ELSE YStr(<<>>)
    ELSE YStr(entered)

\* load_values_yaml_if_exists: the parsed file, an empty mapping when absent.
load_values_yaml_if_exists(values_file) ==
    IF values_file.some THEN values_file.val ELSE Mapping_new

\* A variant of the first loop that stores the OS value whether or not the
\* values file has the key.
SeedFromOsEnvAlways(acc, var, existing_os_env_values) ==
    IF var \in DOMAIN existing_os_env_values
    THEN [acc EXCEPT
            !.root = set_yaml_path(@, env_var_values_path(var),
                                   YStr(existing_os_env_values[var])),
            !.prompted_values =
                Append(@, <<env_var_values_path(var), existing_os_env_values[var]>>),
            !.changed = TRUE]
    ELSE acc

\* The first loop of prompt_and_update_values_file, for one env key: its OS
\* value is stored under environment.<VAR> when the values file lacks it.
SeedFromOsEnv(acc, var, existing_os_env_values) ==
    IF /\ ~lookup_yaml_path(acc.root, env_var_values_path(var)).some
       /\ var \in DOMAIN existing_os_env_values
    THEN [acc EXCEPT
            !.root = set_yaml_path(@, env_var_values_path(var),
                                   YStr(existing_os_env_values[var])),
            !.prompted_values =
                Append(@, <<env_var_values_path(var), existing_os_env_values[var]>>),
            !.changed = TRUE]
    ELSE acc

\* A variant of the prompt loop that does not store the answer in the
\* document.
PromptOneNotStoring(acc, p) ==
    Bind(prompt_for_yaml_key(lookup_yaml_path(acc.root, p),
                             IF acc.stdin = <<>> THEN <<>> ELSE Head(acc.stdin)),
         LAMBDA chosen :
           [acc EXCEPT
              !.prompted_values = Append(@, <<p, yaml_value_to_string(chosen)>>),
              !.changed = TRUE,
              !.stdin = IF @ = <<>> THEN <<>> ELSE Tail(@),
              !.asked = Append(@, p)])

\* The prompt loop, for one path: one line of stdin.
PromptOne(acc, p) ==
    Bind(prompt_for_yaml_key(lookup_yaml_path(acc.root, p),
                             IF acc.stdin = <<>> THEN <<>> ELSE Head(acc.stdin)),
         LAMBDA chosen :
           [acc EXCEPT
              !.prompted_values = Append(@, <<p, yaml_value_to_string(chosen)>>),
              !.root = set_yaml_path(@, p, chosen),
              !.changed = TRUE,
              !.stdin = IF @ = <<>> THEN <<>> ELSE Tail(@),
              !.asked = Append(@, p)])

\* prompt_and_update_values_file: [root, prompted_values, changed, stdin,
\* asked]; the file is written (with root) only when changed.
prompt_and_update_values_file(values_file, values_paths, env_vars, opts, stdin) ==
    LET acc0 == [root |-> load_values_yaml_if_exists(values_file),
                 prompted_values |-> <<>>, changed |-> FALSE,
                 stdin |-> stdin, asked |-> <<>>]
        env_skip == IF opts.force THEN {} ELSE opts.skip_existing_env_vars
        all_prompt_paths ==
            collect_prompt_paths(values_paths, env_vars, opts.include_environment_vars, env_skip)
    IN Bind(IF opts.include_environment_vars /\ ~opts.force
            THEN FoldLeft(LAMBDA acc, var :
                            SeedFromOsEnv(acc, var, opts.existing_os_env_values),
                          acc0, BTreeIter(env_vars))
            ELSE acc0,
            LAMBDA seeded :
              FoldLeft(PromptOne, seeded,
                       SortByRank(IF opts.force THEN BTreeIter(all_prompt_paths)
                                  ELSE SelectSeq(BTreeIter(all_prompt_paths),
                                         LAMBDA p : ~lookup_yaml_path(seeded.root, p).some),
                                  opts.prompt_order)))

(***************************************************************************)
(* run(): the steps, each a function of the execution's record.            *)
(*                                                                         *)
(* The record holds the inputs (args, templates, values_file: the parsed   *)
(* values file on disk or None, os_env, stdin), the locals of run(), and   *)
(* what the execution did: written (the bytes given to write_output),      *)
(* report (the missing lists printed), env_lookups (the names env::var_os  *)
(* was called with), error ("" while none).                                *)
(***************************************************************************)

Fail(r, why) == [r EXCEPT !.pc = "failed", !.error = why]

\* A variant of the first step that snapshots the OS environment of the env
\* keys under --value-file-only too.
CollectStepSnapshotAlways(r) ==
    Bind(collect_placeholders_all(r.templates), LAMBDA keys :
      Bind([r EXCEPT !.env_vars = keys.env_vars,
                     !.values_paths = keys.values_paths,
                     !.prompt_order = collect_prompt_order(r.templates)],
           LAMBDA r1 :
             IF r.args.force /\ ~r.args.create_values_file
             THEN Fail(r1, "force_without_create_values_file")
             ELSE [r1 EXCEPT
                     !.pc = "collected",
                     !.env_lookups = @ \cup keys.env_vars,
                     !.existing_os_env_vars =
                         {v \in keys.env_vars : var_os(r.os_env, v).some},
                     !.existing_os_env_values =
                         [v \in {w \in keys.env_vars : var_os(r.os_env, w).some} |->
                            r.os_env[v]]]))

\* run, lines 133-162: scan the batch, check the flags, snapshot the OS
\* environment of the env keys (not under --value-file-only).
CollectStep(r) ==
    Bind(collect_placeholders_all(r.templates), LAMBDA keys :
      Bind([r EXCEPT !.env_vars = keys.env_vars,
                     !.values_paths = keys.values_paths,
                     !.prompt_order = collect_prompt_order(r.templates)],
           LAMBDA r1 :
             IF r.args.force /\ ~r.args.create_values_file
             THEN Fail(r1, "force_without_create_values_file")
             ELSE IF r.args.value_file_only
             THEN [r1 EXCEPT !.pc = "collected"]
             ELSE [r1 EXCEPT
                     !.pc = "collected",
                     !.env_lookups = @ \cup keys.env_vars,
                     !.existing_os_env_vars =
                         {v \in keys.env_vars : var_os(r.os_env, v).some},
                     !.existing_os_env_values =
                         [v \in {w \in keys.env_vars : var_os(r.os_env, w).some} |->
                            r.os_env[v]]]))

\* run, lines 163-179: the interactive pre-pass, which may rewrite the
\* values file.
PromptStep(r) ==
    LET include_environment_vars_in_prompts == r.args.create_values_file
        needs_values_prompt ==
            \/ r.values_paths # {}
            \/ (include_environment_vars_in_prompts /\ r.env_vars # {})
        opts == [include_environment_vars |-> include_environment_vars_in_prompts,
                 skip_existing_env_vars |-> r.existing_os_env_vars,
                 existing_os_env_values |-> r.existing_os_env_values,
                 prompt_order |-> r.prompt_order,
                 force |-> r.args.force]
    IN IF r.args.create_values_file /\ needs_values_prompt
       THEN Bind(prompt_and_update_values_file(
                     r.values_file, r.values_paths, r.env_vars, opts, r.stdin),
                 LAMBDA got :
                   [r EXCEPT !.pc = "prompted",
                             !.prompted_values = got.prompted_values,
                             !.prompted_env_map =
                                 prompted_environment_values(got.prompted_values),
                             !.asked = got.asked,
                             !.stdin = got.stdin,
                             !.values_file = IF got.changed THEN Some(got.root) ELSE @])
       ELSE [r EXCEPT !.pc = "prompted"]

\* run, lines 184-190: load the values file: required when a values path
\* occurs, optional when only env keys occur, not loaded otherwise.
LoadStep(r) ==
    IF r.values_paths # {}
    THEN IF r.values_file.some
         THEN [r EXCEPT !.pc = "loaded", !.values_yaml = r.values_file]
         ELSE Fail(r, "failed_to_read_values_file")
    ELSE IF r.env_vars # {}
    THEN [r EXCEPT !.pc = "loaded",
                   !.values_yaml = Some(load_values_yaml_if_exists(r.values_file))]
    ELSE [r EXCEPT !.pc = "loaded", !.values_yaml = None]

\* resolve_env_from_values_file: (env_map, missing_paths).
resolve_env_from_values_file(env_vars, yaml) ==
    FoldLeft(LAMBDA acc, var :
               Bind(lookup_yaml_path(yaml, env_var_values_path(var)), LAMBDA got :
                 IF got.some
                 THEN [acc EXCEPT !.env_map = MapPut(@, var, yaml_value_to_string(got.val))]
                 ELSE [acc EXCEPT !.missing_paths = Append(@, env_var_values_path(var))]),
             [env_map |-> EmptyMap, missing_paths |-> <<>>], BTreeIter(env_vars))

\* A variant of the file-only arm that keeps the missing env keys in the
\* missing-env list instead of reclassifying them as values paths.
ResolveEnvFileOnlyAsEnv(r) ==
    IF r.env_vars = {} THEN r
    ELSE Bind(resolve_env_from_values_file(r.env_vars, r.values_yaml.val), LAMBDA got :
           [r EXCEPT
              !.env_map = got.env_map,
              !.missing_env =
                  [i \in 1..Len(got.missing_paths) |-> StripEnvPrefix(got.missing_paths[i])]])

\* run, lines 196-221: env keys under --value-file-only.
ResolveEnvFileOnly(r) ==
    IF r.env_vars = {} THEN r
    ELSE Bind(resolve_env_from_values_file(r.env_vars, r.values_yaml.val), LAMBDA got :
           [r EXCEPT
              !.env_lookups = IF r.args.verbose THEN @ \cup DOMAIN got.env_map ELSE @,
              !.env_map = got.env_map,
              !.missing_env = <<>>,
              !.missing_values = @ \o got.missing_paths])

\* A variant of the loop body that asks the OS environment first.
ResolveOneEnvOsFirst(r, v) ==
    LET os_val == var_os(r.os_env, v)
        r1     == [r EXCEPT !.env_lookups = @ \cup {v}]
    IN Bind(IF r.values_yaml.some
            THEN lookup_yaml_path(r.values_yaml.val, env_var_values_path(v))
            ELSE None,
            LAMBDA inFile :
              IF os_val.some
              THEN [r1 EXCEPT !.env_map = MapPut(@, v, os_val.val)]
              ELSE IF inFile.some
              THEN [r1 EXCEPT !.env_map = MapPut(@, v, yaml_value_to_string(inFile.val))]
              ELSE IF v \in DOMAIN r.prompted_env_map
              THEN [r1 EXCEPT !.env_map = MapPut(@, v, r.prompted_env_map[v])]
              ELSE [r1 EXCEPT !.missing_env = Append(@, v)])

\* A variant of the loop body that lets a key that resolves nowhere pass:
\* no entry in env_map, none in missing_env.
ResolveOneEnvSkipping(r, v) ==
    LET os_val == var_os(r.os_env, v)
        r1     == [r EXCEPT !.env_lookups = @ \cup {v}]
    IN Bind(IF r.values_yaml.some
            THEN lookup_yaml_path(r.values_yaml.val, env_var_values_path(v))
            ELSE None,
            LAMBDA inFile :
              IF inFile.some
              THEN [r1 EXCEPT !.env_map = MapPut(@, v, yaml_value_to_string(inFile.val))]
              ELSE IF v \in DOMAIN r.prompted_env_map
              THEN [r1 EXCEPT !.env_map = MapPut(@, v, r.prompted_env_map[v])]
              ELSE IF os_val.some
              THEN [r1 EXCEPT !.env_map = MapPut(@, v, os_val.val)]
              ELSE r1)

\* run, lines 223-251: one env key, not under --value-file-only.
ResolveOneEnv(r, v) ==
    LET os_val == var_os(r.os_env, v)
        r1     == [r EXCEPT !.env_lookups = @ \cup {v}]
    IN Bind(IF r.values_yaml.some
            THEN lookup_yaml_path(r.values_yaml.val, env_var_values_path(v))
            ELSE None,
            LAMBDA inFile :
              IF inFile.some
              THEN [r1 EXCEPT !.env_map = MapPut(@, v, yaml_value_to_string(inFile.val))]
              ELSE IF v \in DOMAIN r.prompted_env_map
              THEN [r1 EXCEPT !.env_map = MapPut(@, v, r.prompted_env_map[v])]
              ELSE IF os_val.some
              THEN [r1 EXCEPT !.env_map = MapPut(@, v, os_val.val)]
              ELSE [r1 EXCEPT !.missing_env = Append(@, v)])

\* A variant of the env resolution that ignores --value-file-only.
ResolveEnvStepReadingOs(r) ==
    [FoldLeft(ResolveOneEnv, r, BTreeIter(r.env_vars)) EXCEPT !.pc = "env_resolved"]

\* run, lines 192-252.
ResolveEnvStep(r) ==
    [(IF r.args.value_file_only THEN ResolveEnvFileOnly(r)
      ELSE FoldLeft(ResolveOneEnv, r, BTreeIter(r.env_vars)))
     EXCEPT !.pc = "env_resolved"]

\* A variant of the loop body that gives up after the first missing key.
ResolveOneValueStopping(r, p) ==
    IF r.missing_values # <<>> \/ r.missing_env # <<>> THEN r
    ELSE Bind(lookup_yaml_path(r.values_yaml.val, p), LAMBDA got :
           IF got.some
           THEN [r EXCEPT !.values_map = MapPut(@, p, yaml_value_to_string(got.val))]
           ELSE [r EXCEPT !.missing_values = Append(@, p)])

\* run, lines 256-267: one values path.
ResolveOneValue(r, p) ==
    Bind(lookup_yaml_path(r.values_yaml.val, p), LAMBDA got :
      IF got.some
      THEN [r EXCEPT !.values_map = MapPut(@, p, yaml_value_to_string(got.val))]
      ELSE [r EXCEPT !.missing_values = Append(@, p)])

\* run, lines 254-267.
ResolveValuesStep(r) ==
    [FoldLeft(ResolveOneValue, r, BTreeIter(r.values_paths)) EXCEPT !.pc = "resolved"]

\* A variant of the gate that looks at the missing env keys only.
GateStepEnvOnly(r) ==
    IF r.missing_env # <<>>
    THEN [Fail(r, "not_all_placeholders_could_be_resolved") EXCEPT
            !.report = Some([missing_env |-> r.missing_env,
                             missing_values |-> r.missing_values])]
    ELSE [r EXCEPT !.pc = "rendering"]

\* run, lines 269-288: print every missing key and fail, or go on.
GateStep(r) ==
    IF r.missing_env # <<>> \/ r.missing_values # <<>>
    THEN [Fail(r, "not_all_placeholders_could_be_resolved") EXCEPT
            !.report = Some([missing_env |-> r.missing_env,
                             missing_values |-> r.missing_values])]
    ELSE [r EXCEPT !.pc = "rendering"]

\* The closure given to replace_all (lines 293-323): the text for one match.
Replacement(r, input, cap) ==
    LET raw == IF cap.group = 1 THEN GetOrDefault(r.values_map, cap.key)
               ELSE GetOrDefault(r.env_map, extract_env_key(cap))
    IN IF r.args.indent
       THEN format_replacement_with_indent(raw, input, cap.start, cap.end)
       ELSE raw

\* A variant of the replacement pass that drops the text after the last
\* match.
replace_all_to_last_match(r, input) ==
    Bind(captures_iter(input), LAMBDA caps :
      LET out[i \in 0..Len(caps)] ==
            IF i = 0 THEN <<>>
            ELSE out[i - 1]
                   \o Slice(input, IF i = 1 THEN 0 ELSE caps[i - 1].end, caps[i].start)
                   \o Replacement(r, input, caps[i])
      IN out[Len(caps)])

\* A variant of the replacement pass that strips the whitespace a kept
\* text starts with.
replace_all_stripping(r, input) ==
    Bind(captures_iter(input), LAMBDA caps :
      LET out[i \in 0..Len(caps)] ==
            IF i = 0 THEN <<>>
            ELSE out[i - 1]
                   \o TrimStart(Slice(input, IF i = 1 THEN 0 ELSE caps[i - 1].end, caps[i].start))
                   \o Replacement(r, input, caps[i])
      IN out[Len(caps)]
           \o TrimStart(Slice(input, IF caps = <<>> THEN 0 ELSE caps[Len(caps)].end, Len(input))))

\* A variant of the replacement pass whose closure is given the text
\* rendered so far (followed by the rest of the input) and the offsets of
\* the match in it.
replace_all_on_rendered_text(r, input) ==
    Bind(captures_iter(input), LAMBDA caps :
      LET out[i \in 0..Len(caps)] ==
            IF i = 0 THEN <<>>
            ELSE Bind(out[i - 1]
                        \o Slice(input, IF i = 1 THEN 0 ELSE caps[i - 1].end, caps[i].start),
                      LAMBDA sofar :
                        sofar \o Replacement(r, sofar \o Slice(input, caps[i].start, Len(input)),
                                             [caps[i] EXCEPT
                                                !.start = Len(sofar),
                                                !.end = Len(sofar) + caps[i].end - caps[i].start]))
      IN out[Len(caps)]
           \o Slice(input, IF caps = <<>> THEN 0 ELSE caps[Len(caps)].end, Len(input)))

\* Regex::replace_all: the text between the matches kept, each match
\* replaced, in one pass over the original input.
replace_all(r, input) ==
    Bind(captures_iter(input), LAMBDA caps :
      LET out[i \in 0..Len(caps)] ==
            IF i = 0 THEN <<>>
            ELSE out[i - 1]
                   \o Slice(input, IF i = 1 THEN 0 ELSE caps[i - 1].end, caps[i].start)
                   \o Replacement(r, input, caps[i])
      IN out[Len(caps)]
           \o Slice(input, IF caps = <<>> THEN 0 ELSE caps[Len(caps)].end, Len(input)))

\* A variant of the render step that scans and replaces its own result
\* once more.
RenderStepRescanning(r) ==
    [r EXCEPT !.rendered_outputs =
                 Append(@, replace_all(r, replace_all(r, r.templates[Len(r.rendered_outputs) + 1])))]

\* run, lines 292-325: one iteration, rendering the next document.
RenderStep(r) ==
    [r EXCEPT !.rendered_outputs =
                 Append(@, replace_all(r, r.templates[Len(r.rendered_outputs) + 1]))]

\* render_multi_document_yaml: documents joined by "\n---\n", each ended
\* by a newline.
render_multi_document_yaml(rendered) ==
    Concat([idx \in 1..Len(rendered) |->
              (IF idx > 1 THEN Chars("\n---\n") ELSE <<>>)
              \o rendered[idx]
              \o (IF EndsWith(rendered[idx], "\n") THEN <<>> ELSE <<"\n">>)])

\* write_outputs: the bytes given to write_output.
write_outputs(rendered) ==
    IF Len(rendered) = 1 THEN rendered[1] ELSE render_multi_document_yaml(rendered)

\* run, lines 327-347 (without --eval).
WriteStep(r) == [r EXCEPT !.pc = "done", !.written = Some(write_outputs(r.rendered_outputs))]

(***************************************************************************)
(* The executions checked: the inputs of run().                            *)
(***************************************************************************)
MaxDocs == 2
MaxAnswers == 1

KeyA == Chars("A")
KeyB == Chars("B")
EnvironmentKey == Chars("environment")

\* Templates: env and values placeholders in every form, a repeated key,
\* malformed placeholder-like text.
DocMixed  == Chars("n: ${A}\nname: {{ .Values.a.b }}\n")
DocEnv    == Chars("k: $B {{ A }}-${A}")
DocBroken == Chars("m: {{ A B }} ${ $1 {{ .Values. }} {{x")
DocValue  == Chars("  s: {{.Values.a}} # {{ $B }}\n")

Docs == {DocMixed, DocEnv, DocBroken, DocValue}

Batches == UNION {[1..n -> Docs] : n \in 1..MaxDocs}

\* The values file on disk: absent, or its parsed document.
ValuesFiles ==
    { None,
      Some(YNull),
      Some(YMap(<< <<Chars("a"), YMap(<< <<Chars("b"), YNum(7)>> >>)>> >>)),
      Some(YMap(<< <<Chars("a"), YStr(Chars("{{ A }}$C"))>>,
                   <<EnvironmentKey, YMap(<< <<KeyA, YStr(Chars("x"))>> >>)>> >>)),
      Some(YMap(<< <<EnvironmentKey, YMap(<< <<KeyA, YStr(Chars("x\n y"))>>,
                                             <<KeyB, YBool(TRUE)>> >>)>>,
                   <<Chars("a"), YMap(<< <<Chars("b"), YNum(-40)>> >>)>> >>)) }

\* The process environment.
OsEnvs ==
    { EmptyMap,
      (KeyA :> Chars("y")) @@ (KeyB :> Chars("z\n\n")) }

\* Lines typed at the prompts; a prompt read at the end of the input gets
\* the empty line, which accepts the default.
AnswerLines == {Chars("v")}
Stdins == UNION {[1..n -> AnswerLines] : n \in 0..MaxAnswers}

ArgSets ==
    [value_file_only : BOOLEAN, create_values_file : BOOLEAN, force : BOOLEAN,
     verbose : BOOLEAN, indent : BOOLEAN]

\* The record of an execution about to start.
NewRun(args, templates, values_file, os_env, stdin) ==
    [pc |-> "start", args |-> args, templates |-> templates,
     values_file |-> values_file, os_env |-> os_env, stdin |-> stdin,
     env_vars |-> {}, values_paths |-> {}, prompt_order |-> <<>>,
     existing_os_env_vars |-> {}, existing_os_env_values |-> EmptyMap,
     prompted_values |-> <<>>, prompted_env_map |-> EmptyMap, asked |-> <<>>,
     values_yaml |-> None,
     missing_values |-> <<>>, missing_env |-> <<>>,
     env_map |-> EmptyMap, values_map |-> EmptyMap,
     rendered_outputs |-> <<>>,
     written |-> None, report |-> None, env_lookups |-> {}, error |-> ""]

Idle == [pc |-> "idle"]

Init ==
    /\ \E args \in ArgSets, templates \in Batches, values_file \in ValuesFiles,
          os_env \in OsEnvs, stdin \in Stdins :
         run = NewRun(args, templates, values_file, os_env, stdin)
    /\ twin = Idle
    /\ scan = Idle
    /\ yq = Idle
    /\ fmt = Idle
    /\ ctx = Idle

Collect ==
    /\ run.pc = "start"
    /\ run' = CollectStep(run)
    /\ UNCHANGED <<twin, scan, yq, fmt, ctx>>

Prompt ==
    /\ run.pc = "collected"
    /\ run' = PromptStep(run)
    /\ UNCHANGED <<twin, scan, yq, fmt, ctx>>

LoadValues ==
    /\ run.pc = "prompted"
    /\ run' = LoadStep(run)
    /\ UNCHANGED <<twin, scan, yq, fmt, ctx>>

ResolveEnv ==
    /\ run.pc = "loaded"
    /\ run' = ResolveEnvStep(run)
    /\ UNCHANGED <<twin, scan, yq, fmt, ctx>>

ResolveValues ==
    /\ run.pc = "env_resolved"
    /\ run' = ResolveValuesStep(run)
    /\ UNCHANGED <<twin, scan, yq, fmt, ctx>>

Gate ==
    /\ run.pc = "resolved"
    /\ run' = GateStep(run)
    /\ UNCHANGED <<twin, scan, yq, fmt, ctx>>

Render ==
    /\ run.pc = "rendering"
    /\ Len(run.rendered_outputs) < Len(run.templates)
    /\ run' = RenderStep(run)
    /\ UNCHANGED <<twin, scan, yq, fmt, ctx>>

WriteOutputs ==
    /\ run.pc = "rendering"
    /\ Len(run.rendered_outputs) = Len(run.templates)
    /\ run' = WriteStep(run)
    /\ UNCHANGED <<twin, scan, yq, fmt, ctx>>

Next ==
    \/ Collect \/ Prompt \/ LoadValues \/ ResolveEnv \/ ResolveValues
    \/ Gate \/ Render \/ WriteOutputs

Spec == Init /\ [][Next]_vars

(***************************************************************************)
(* Two executions of run() under --value-file-only on the same documents,  *)
(* values file, answers and flags, in two different OS environments.       *)
(***************************************************************************)

\* The execution has not ended.
Running(r) == r.pc \notin {"idle", "failed", "done"}

\* The next step of run() from the place the execution is at.
RunStep(r) ==
    CASE r.pc = "start"        -> CollectStep(r)
      [] r.pc = "collected"    -> PromptStep(r)
      [] r.pc = "prompted"     -> LoadStep(r)
      [] r.pc = "loaded"       -> ResolveEnvStep(r)
      [] r.pc = "env_resolved" -> ResolveValuesStep(r)
      [] r.pc = "resolved"     -> GateStep(r)
      [] r.pc = "rendering"    -> IF Len(r.rendered_outputs) < Len(r.templates)
                                  THEN RenderStep(r) ELSE WriteStep(r)

TwinInit ==
    /\ \E args \in ArgSets, templates \in Batches, values_file \in ValuesFiles,
          stdin \in Stdins, os_env \in OsEnvs, other_env \in OsEnvs :
         /\ args.value_file_only
         /\ os_env # other_env
         /\ run = NewRun(args, templates, values_file, os_env, stdin)
         /\ twin = NewRun(args, templates, values_file, other_env, stdin)
    /\ scan = Idle
    /\ yq = Idle
    /\ fmt = Idle
    /\ ctx = Idle

\* Both executions take their next step.
TwinStep ==
    /\ Running(run) /\ Running(twin)
    /\ run' = RunStep(run)
    /\ twin' = RunStep(twin)
    /\ UNCHANGED <<scan, yq, fmt, ctx>>

TwinNext == TwinStep

SpecTwin == TwinInit /\ [][TwinNext]_vars

(***************************************************************************)
(* One values path resolved against a values document, as in the loop of   *)
(* run() lines 254-267: lookup_yaml_path, then yaml_value_to_string of the *)
(* node found.                                                             *)
(***************************************************************************)
MaxPathLen == 3

Segments == {Chars("a"), Chars("b"), Chars("0")}

\* parts.join(".")
Join(parts) ==
    Concat([i \in 1..Len(parts) |-> IF i = 1 THEN parts[i] ELSE <<".">> \o parts[i]])

PathParts == UNION {[1..n -> Segments] : n \in 1..MaxPathLen}

\* Values documents: nested mappings, a scalar root, a sequence root,
\* sequences under a key, a key "0", text with surrounding whitespace and
\* newlines directly under the root.
YamlRoots ==
    << YMap(<< <<Chars("a"), YMap(<< <<Chars("b"), YNum(7)>>,
                                    <<Chars("0"), YStr(Chars("s t"))>> >>)>>,
              <<Chars("b"), YSeq(<<YNum(-40), YMap(<< <<Chars("a"), YBool(TRUE)>> >>)>>)>>,
              <<Chars("0"), YNum(-40)>> >>),
      YMap(<< <<Chars("a"), YStr(Chars(" x \n\n"))>>,
              <<Chars("b"), YNull>>,
              <<Chars("0"), YBool(FALSE)>> >>),
      YMap(<< <<Chars("a"),
                YMap(<< <<Chars("a"), YMap(<< <<Chars("a"), YNum(105)>>,
                                              <<Chars("b"), Mapping_new>>,
                                              <<Chars("0"), YStr(<<>>)>> >>)>>,
                        <<Chars("b"), YSeq(<<>>)>>,
                        <<Chars("0"), YNum(0)>> >>)>>,
              <<Chars("b"), YStr(Chars("true"))>> >>),
      YSeq(<< YMap(<< <<Chars("a"), YNum(1)>> >>) >>),
      YStr(Chars("a")),
      YNull >>

YamlInit ==
    /\ \E r \in 1..Len(YamlRoots), parts \in PathParts :
         yq = [pc |-> "ready", root |-> YamlRoots[r], parts |-> parts, path |-> Join(parts),
               found |-> None, text |-> <<>>]
    /\ run = Idle
    /\ twin = Idle
    /\ scan = Idle
    /\ fmt = Idle
    /\ ctx = Idle

\* run, line 260 (and 228): lookup_yaml_path(yaml, path).
Lookup ==
    /\ yq.pc = "ready"
    /\ yq' = [yq EXCEPT !.pc = "looked_up", !.found = lookup_yaml_path(yq.root, yq.path)]
    /\ UNCHANGED <<run, twin, scan, fmt, ctx>>

\* run, line 262 (and 229): yaml_value_to_string(v) of the node found.
Stringify ==
    /\ yq.pc = "looked_up"
    /\ yq.found.some
    /\ yq' = [yq EXCEPT !.pc = "stringified", !.text = yaml_value_to_string(yq.found.val)]
    /\ UNCHANGED <<run, twin, scan, fmt, ctx>>

YamlNext == Lookup \/ Stringify

SpecYaml == YamlInit /\ [][YamlNext]_vars

(***************************************************************************)
(* The scan of one text by collect_placeholders (lines 357-369): the loop  *)
(* over re.captures_iter(input), one capture per step, each inserting its  *)
(* key into one of the two sets.                                           *)
(***************************************************************************)
MaxWs == 1

\* Runs of whitespace of up to MaxWs characters.
WsRuns == UNION {[1..n -> {" ", "\t"}] : n \in 0..MaxWs}

Leads == {<<>>, <<"{">>, <<"$">>, <<"$", "A">>}
Opens == {Chars("{{"), Chars("${"), Chars("$"), Chars("{")}
Contents ==
    {Chars("A"), Chars("A1"), Chars("_b"), Chars("1A"), Chars("A B"), Chars("A-"), <<>>,
     Chars(".Values.a"), Chars(".Values.a.b1"), Chars(".Values.0_"), Chars(".Values."),
     Chars(".Values..a"), Chars(".Values.a."), Chars(".values.a")}
Closes == {Chars("}}"), Chars("}"), <<>>}
Tails == {<<>>, Chars("c"), Chars(" $A"), Chars("{{A}}")}

\* Texts around one opening, content and closing, with whitespace between.
ScanInputs ==
    {Concat(<<lead, open, ws1, content, ws2, close, tail>>) :
       lead \in Leads, open \in Opens, ws1 \in WsRuns, content \in Contents,
       ws2 \in WsRuns, close \in Closes, tail \in Tails}

ScanInit ==
    /\ \E input \in ScanInputs :
         scan = [pc |-> "scanning", input |-> input, pos |-> 0, caps |-> <<>>,
                 env_vars |-> {}, values_paths |-> {}]
    /\ run = Idle
    /\ twin = Idle
    /\ yq = Idle
    /\ fmt = Idle
    /\ ctx = Idle

\* One turn of the loop: the next capture, its key inserted (lines 361-367).
ScanCapture ==
    /\ scan.pc = "scanning"
    /\ LET cap == FindFrom(scan.input, scan.pos)
       IN /\ cap.group # 0
          /\ scan' = [scan EXCEPT
                        !.pos = cap.end,
                        !.caps = Append(@, cap),
                        !.values_paths = IF cap.group = 1 THEN @ \cup {cap.key} ELSE @,
                        !.env_vars = IF cap.group # 1 THEN @ \cup {extract_env_key(cap)} ELSE @]
    /\ UNCHANGED <<run, twin, yq, fmt, ctx>>

\* The iterator is exhausted: the two sets are returned (line 369).
ScanReturn ==
    /\ scan.pc = "scanning"
    /\ FindFrom(scan.input, scan.pos).group = 0
    /\ scan' = [scan EXCEPT !.pc = "returned", !.pos = Len(scan.input)]
    /\ UNCHANGED <<run, twin, yq, fmt, ctx>>

ScanNext == ScanCapture \/ ScanReturn

SpecScan == ScanInit /\ [][ScanNext]_vars

(***************************************************************************)
(* One call of format_replacement_with_indent (lines 880-895), as the      *)
(* closure of the render loop makes it: a resolved value, the template,    *)
(* and the span of an occurrence in it.                                    *)
(***************************************************************************)

\* The template: lines above, then the occurrence's line (indentation, the
\* text before the occurrence, the occurrence, the text after it, and
\* possibly more lines).
LinesAbove == {<<>>, Chars("a:\n"), Chars(" b: c\n")}
Indentations == {<<>>, Chars("  "), Chars("\t ")}
TextsBefore ==
    {Chars("k:"), Chars("k: "), Chars("-"), Chars("- "), Chars("k"), Chars("k:x "), <<>>,
     Chars("- k:\t"), Chars("- k: ")}
Occurrence == Chars("${A}")
TextsAfter ==
    {<<>>, Chars(" "), Chars(" #c"), Chars("\n"), Chars(" \t\nz: 1\n"), Chars("x\n")}

\* Resolved values: without a newline, with newlines inside, at the end,
\* twice and more at the end, an empty line inside, lines that start with
\* a space.
ResolvedValues ==
    {Chars("v"), <<>>, Chars("a\nb"), Chars("a\n"), Chars("a\n\n"), Chars("\n"),
     Chars("a\n\n b"), Chars(" a\nb\n\n\n")}

IndentInit ==
    /\ \E above \in LinesAbove, indent \in Indentations, before \in TextsBefore,
          after \in TextsAfter, value \in ResolvedValues :
         fmt = [pc |-> "called",
                input |-> Concat(<<above, indent, before, Occurrence, after>>),
                match_start |-> Len(above) + Len(indent) + Len(before),
                match_end |-> Len(above) + Len(indent) + Len(before) + Len(Occurrence),
                value |-> value,
                out |-> <<>>]
    /\ run = Idle
    /\ twin = Idle
    /\ scan = Idle
    /\ yq = Idle
    /\ ctx = Idle

\* format_replacement_with_indent(&raw, input, m.start(), m.end()) returns.
Reinsert ==
    /\ fmt.pc = "called"
    /\ fmt' = [fmt EXCEPT
                 !.pc = "returned",
                 !.out = format_replacement_with_indent(fmt.value, fmt.input,
                                                        fmt.match_start, fmt.match_end)]
    /\ UNCHANGED <<run, twin, scan, yq, ctx>>

IndentNext == Reinsert

SpecIndent == IndentInit /\ [][IndentNext]_vars

(***************************************************************************)
(* Properties of run().                                                     *)
(***************************************************************************)
MissingError == "not_all_placeholders_could_be_resolved"

\* The execution has left the resolution loops (lines 192-267).
Resolved(r) ==
    \/ r.pc \in {"resolved", "rendering", "done"}
    \/ (r.pc = "failed" /\ r.error = MissingError)

\* The execution has left the env loop (lines 192-252).
EnvResolved(r) == r.pc = "env_resolved" \/ Resolved(r)

\* The values document the resolution reads has a node at path.
HasNode(r, path) == r.values_yaml.some /\ lookup_yaml_path(r.values_yaml.val, path).some

\* The text of the node at path.
NodeText(r, path) == yaml_value_to_string(lookup_yaml_path(r.values_yaml.val, path).val)

\* C1: resolution is all-or-nothing for the batch.  Whenever a document has
\* been rendered, or bytes were given to the output, or rendering has
\* started, both missing lists are empty; and once the resolution is over
\* with a key in either missing list, the run has failed with the
\* missing-key error, nothing is rendered and nothing was written.
C1_AllOrNothing ==
    /\ (run.rendered_outputs # <<>> \/ run.written.some \/ run.pc \in {"rendering", "done"})
         => (run.missing_env = <<>> /\ run.missing_values = <<>>)
    /\ ((run.missing_env # <<>> \/ run.missing_values # <<>>)
          /\ run.pc \notin {"env_resolved", "resolved"})
         => /\ run.pc = "failed"
            /\ run.error = MissingError
            /\ run.rendered_outputs = <<>>
            /\ ~run.written.some

\* A batch of two documents rejected because of a values path alone.
C1_Witness ==
    /\ run.pc = "failed"
    /\ run.error = MissingError
    /\ Len(run.templates) = 2
    /\ run.missing_env = <<>>
    /\ run.missing_values # <<>>
    /\ run.env_vars # {}

\* The env keys that resolve nowhere (not under --value-file-only).
UnresolvedEnv(r) ==
    {k \in r.env_vars :
       /\ ~HasNode(r, env_var_values_path(k))
       /\ k \notin DOMAIN r.prompted_env_map
       /\ k \notin DOMAIN r.os_env}

\* The env keys without a node environment.<KEY>.
UnresolvedEnvInFile(r) == {k \in r.env_vars : ~HasNode(r, env_var_values_path(k))}

\* The values paths without a node.
UnresolvedValues(r) == {p \in r.values_paths : ~HasNode(r, p)}

\* C2: the Missing Report is complete and exact.  Once the resolution is
\* over, the missing env keys are exactly the distinct env keys that resolve
\* nowhere and the missing values paths exactly the distinct values paths
\* (under --value-file-only also the environment.<KEY> paths) without a
\* node; every other key has its resolved text, so that no missing key stops
\* the resolution of another; a failed run reports exactly the two lists.
C2_MissingReportExact ==
    Resolved(run) =>
      /\ Range(run.missing_env) =
           (IF run.args.value_file_only THEN {} ELSE UnresolvedEnv(run))
      /\ Range(run.missing_values) =
           UnresolvedValues(run) \cup
           (IF run.args.value_file_only
            THEN {env_var_values_path(k) : k \in UnresolvedEnvInFile(run)} ELSE {})
      /\ DOMAIN run.env_map =
           run.env_vars \ (IF run.args.value_file_only THEN UnresolvedEnvInFile(run)
                           ELSE UnresolvedEnv(run))
      /\ DOMAIN run.values_map = run.values_paths \ UnresolvedValues(run)
      /\ run.pc = "failed" =>
           run.report = Some([missing_env |-> run.missing_env,
                              missing_values |-> run.missing_values])

\* Two unresolved env keys and one unresolved values path, all reported.
C2_Witness ==
    /\ run.pc = "failed"
    /\ run.report.some
    /\ Range(run.report.val.missing_env) = {KeyA, KeyB}
    /\ Range(run.report.val.missing_values) = {Chars("a.b")}

C4_FileOnlyReclassifies ==
    (EnvResolved(run) /\ run.args.value_file_only) =>
      /\ run.missing_env = <<>>
      /\ \A k \in run.env_vars :
           IF HasNode(run, env_var_values_path(k))
           THEN /\ k \in DOMAIN run.env_map
                /\ run.env_map[k] = NodeText(run, env_var_values_path(k))
                /\ env_var_values_path(k) \notin Range(run.missing_values)
           ELSE /\ k \notin DOMAIN run.env_map
                /\ env_var_values_path(k) \in Range(run.missing_values)

\* B is defined in the OS environment but has no node: it is reported as
\* environment.B, while A resolves to its node.
C4_Witness ==
    /\ run.pc = "failed" /\ run.args.value_file_only
    /\ KeyB \in DOMAIN run.os_env
    /\ KeyB \in run.env_vars /\ KeyA \in run.env_vars
    /\ run.report.some
    /\ run.report.val.missing_env = <<>>
    /\ env_var_values_path(KeyB) \in Range(run.report.val.missing_values)
    /\ KeyA \in DOMAIN run.env_map
    /\ run.env_map[KeyA] = Chars("x")

C6_OsEnvDoesNotInfluence ==
    (twin.pc # "idle") =>
      /\ run.pc = twin.pc
      /\ run.error = twin.error
      /\ run.rendered_outputs = twin.rendered_outputs
      /\ run.written = twin.written
      /\ run.report = twin.report
      /\ run.missing_env = twin.missing_env
      /\ run.missing_values = twin.missing_values
      /\ run.values_file = twin.values_file

\* Both executions have written the same text with A taken from the values
\* file, although only one OS environment defines A, with another value.
C6_Witness ==
    /\ run.pc = "done" /\ twin.pc = "done"
    /\ KeyA \in run.env_vars
    /\ KeyA \notin DOMAIN run.os_env
    /\ KeyA \in DOMAIN twin.os_env
    /\ twin.env_map[KeyA] # twin.os_env[KeyA]
    /\ run.written = twin.written
    /\ run.written.some

\* Two nodes are the same tree.
RECURSIVE SameNode(_, _)
SameNode(m, n) ==
    /\ m.k = n.k
    /\ CASE m.k = "seq" -> /\ Len(m.v) = Len(n.v)
                           /\ \A i \in 1..Len(m.v) : SameNode(m.v[i], n.v[i])
         [] m.k = "map" -> /\ Len(m.v) = Len(n.v)
                           /\ \A i \in 1..Len(m.v) :
                                m.v[i][1] = n.v[i][1] /\ SameNode(m.v[i][2], n.v[i][2])
         [] OTHER       -> m.v = n.v

\* The widest mapping of the documents.
MaxWidth == 3

\* The nodes met from root when entry choice[i] is taken at level i, None
\* from the level on where the node before is not a mapping, has no such
\* entry, or the entry's key is not the part of the level.
WalkAlong(root, parts, choice) ==
    LET at[i \in 0..Len(parts)] ==
          IF i = 0 THEN Some(root)
          ELSE IF /\ at[i - 1].some
                  /\ at[i - 1].val.k = "map"
                  /\ choice[i] <= Len(at[i - 1].val.v)
                  /\ at[i - 1].val.v[choice[i]][1] = parts[i]
               THEN Some(at[i - 1].val.v[choice[i]][2])
               ELSE None
    IN at[Len(parts)]

\* The terminal nodes of the walks from root along parts through mappings.
MappingWalks(root, parts) ==
    {choice \in [1..Len(parts) -> 1..MaxWidth] : WalkAlong(root, parts, choice).some}

\* C7: the lookup of a dotted path returns the terminal node of the walk
\* from the root through mappings, one segment per level, when there is such
\* a walk, and missing otherwise: when a segment names no key of the mapping
\* reached, or the node reached is a scalar or a sequence while a segment
\* remains.
C7_LookupWalksMappingsOnly ==
    (yq.pc \in {"looked_up", "stringified"}) =>
      LET walks == MappingWalks(yq.root, yq.parts)
      IN /\ (walks = {}) <=> ~yq.found.some
         /\ \A choice \in walks :
              SameNode(yq.found.val, WalkAlong(yq.root, yq.parts, choice).val)

\* The path b.0 over a document whose b is a sequence with an element: the
\* lookup stopped at the sequence and returned missing.
C7_Witness ==
    /\ yq.pc = "looked_up"
    /\ yq.parts = <<Chars("b"), Chars("0")>>
    /\ IsMapping(yq.root)
    /\ MapGet(yq.root, Chars("b")).some
    /\ MapGet(yq.root, Chars("b")).val.k = "seq"
    /\ MapGet(yq.root, Chars("b")).val.v # <<>>
    /\ ~yq.found.some

\* The integer a decimal text denotes.
DecimalValue(text) ==
    LET digits == IF text # <<>> /\ text[1] = "-" THEN Tail(text) ELSE text
        val[i \in 0..Len(digits)] ==
          IF i = 0 THEN 0
          ELSE 10 * val[i - 1] + (CHOOSE d \in 0..9 : DigitChar(d) = digits[i])
    IN IF text # <<>> /\ text[1] = "-" THEN 0 - val[Len(digits)] ELSE val[Len(digits)]

\* Decimal text: digits, no leading zero, a minus sign for negatives only.
IsDecimalText(text) ==
    LET digits == IF text # <<>> /\ text[1] = "-" THEN Tail(text) ELSE text
    IN /\ IsDigits(digits)
       /\ Len(digits) > 1 => digits[1] # "0"
       /\ text[1] = "-" => digits # <<"0">>

IsWs(t) == \A i \in 1..Len(t) : t[i] \in Whitespace

\* [A-Za-z_][A-Za-z0-9_]*
IsIdent(t) ==
    /\ t # <<>>
    /\ t[1] \in IdentStart
    /\ \A i \in 1..Len(t) : t[i] \in WordChar

\* [A-Za-z0-9_]+(?:\.[A-Za-z0-9_]+)*: segments of word characters, one dot
\* between two segments.
IsValuesPath(t) ==
    /\ t # <<>>
    /\ \A i \in 1..Len(t) : t[i] \in WordChar \cup {"."}
    /\ t[1] # "." /\ t[Len(t)] # "."
    /\ \A i \in 1..(Len(t) - 1) : ~(t[i] = "." /\ t[i + 1] = ".")

\* The readings of a whole text as a placeholder: form 1 is
\* {{ .Values.<path> }}, 2 is {{ <ident> }}, 3 is ${<ident>}, 4 is $<ident>.
FormReadings(t) ==
    LET n == Len(t)
        braces == n >= 4 /\ Slice(t, 0, 2) = <<"{", "{">> /\ Slice(t, n - 2, n) = <<"}", "}">>
        inner  == {ij \in (2..(n - 2)) \X (2..(n - 2)) :
                     /\ braces
                     /\ ij[1] <= ij[2]
                     /\ IsWs(Slice(t, 2, ij[1]))
                     /\ IsWs(Slice(t, ij[2], n - 2))}
    IN {[form |-> 1, kind |-> "values_path", key |-> Slice(t, ij[1] + 8, ij[2])] :
          ij \in {x \in inner : /\ x[1] + 8 <= x[2]
                                /\ Slice(t, x[1], x[1] + 8) = ValuesPrefix
                                /\ IsValuesPath(Slice(t, x[1] + 8, x[2]))}}
       \cup
       {[form |-> 2, kind |-> "env_key", key |-> Slice(t, ij[1], ij[2])] :
          ij \in {x \in inner : IsIdent(Slice(t, x[1], x[2]))}}
       \cup
       {[form |-> 3, kind |-> "env_key", key |-> Slice(t, 2, n - 1)] :
          x \in {y \in {0} : /\ n >= 3
                             /\ Slice(t, 0, 2) = <<"$", "{">> /\ t[n] = "}"
                             /\ IsIdent(Slice(t, 2, n - 1))}}
       \cup
       {[form |-> 4, kind |-> "env_key", key |-> Slice(t, 1, n)] :
          x \in {y \in {0} : n >= 2 /\ t[1] = "$" /\ IsIdent(Slice(t, 1, n))}}

\* Some text starting at offset p of s is a placeholder.
FormStartsAt(s, p) ==
    /\ At(s, p) \in {"{", "$"}
    /\ \E q \in (p + 1)..Len(s) : FormReadings(Slice(s, p, q)) # {}

\* The offsets before pos that no capture covers.
Uncaptured(caps, pos) ==
    {p \in 0..(pos - 1) : \A i \in 1..Len(caps) : p < caps[i].start \/ p >= caps[i].end}

\* C9: every capture is one of the four forms, read in exactly one way:
\* its group is the form, its kind follows from the group (1 a values path,
\* 2 to 4 an env key) and its key is the form's path or identifier, without
\* the whitespace inside the braces; a $<ident> capture ends where the
\* identifier characters end; no placeholder starts in the text the scan
\* has passed without capturing it; and the two sets returned are the keys
\* of the captures of each kind, each once.
C9_ScannerForms ==
    (scan.pc # "idle") =>
      /\ \A i \in 1..Len(scan.caps) :
           LET cap == scan.caps[i]
               readings == FormReadings(Slice(scan.input, cap.start, cap.end))
           IN /\ readings = {[form |-> cap.group,
                              kind |-> IF cap.group = 1 THEN "values_path" ELSE "env_key",
                              key  |-> cap.key]}
              /\ \A j \in 1..Len(cap.key) : cap.key[j] \notin Whitespace
              /\ cap.group = 4 => At(scan.input, cap.end) \notin WordChar
              /\ i > 1 => scan.caps[i - 1].end <= cap.start
      /\ \A p \in Uncaptured(scan.caps, scan.pos) : ~FormStartsAt(scan.input, p)
      /\ scan.values_paths = {scan.caps[i].key : i \in {j \in 1..Len(scan.caps) : scan.caps[j].group = 1}}
      /\ scan.env_vars = {scan.caps[i].key : i \in {j \in 1..Len(scan.caps) : scan.caps[j].group # 1}}
      /\ (scan.pc = "returned") =>
           /\ scan.caps = captures_iter(scan.input)
           /\ collect_placeholders(scan.input) =
                [env_vars |-> scan.env_vars, values_paths |-> scan.values_paths]

\* The text "$A{{ A }} $A": three captures in two forms, one env key.
C9_Witness ==
    /\ scan.pc = "returned"
    /\ scan.input = Chars("$A{{\tA }} $A")
    /\ Len(scan.caps) = 3
    /\ scan.caps[1].group = 4 /\ scan.caps[2].group = 2 /\ scan.caps[3].group = 4
    /\ scan.env_vars = {Chars("A")}
    /\ scan.values_paths = {}

\* The readings of every text of a document that is a placeholder.
FormsIn(doc) ==
    UNION {FormReadings(Slice(doc, p, q)) :
             p \in {o \in 0..(Len(doc) - 1) : doc[o + 1] \in {"{", "$"}}, q \in 1..Len(doc)}

\* The placeholders of each template.
DocForms == [doc \in Docs |-> FormsIn(doc)]

\* The keys of a kind that the placeholders of a batch name.
FormKeysOf(templates, kind) ==
    UNION {{f.key : f \in {g \in DocForms[templates[i]] : g.kind = kind}} :
             i \in 1..Len(templates)}

\* A document rendered with every capture replaced and the text before,
\* between and after the captures as it is.
TextKeptAround(r, input, rendered) ==
    LET caps == captures_iter(input)
        n    == Len(caps)
        kept(k) == Slice(input, IF k = 0 THEN 0 ELSE caps[k].end,
                                IF k = n THEN Len(input) ELSE caps[k + 1].start)
    IN rendered =
         Concat([j \in 1..(2 * n + 1) |->
                   IF j % 2 = 1 THEN kept(j \div 2) ELSE Replacement(r, input, caps[j \div 2])])

\* C10: text that is none of the four forms is not an error and stays as it
\* is.  Every key collected is the key of a placeholder of the batch and
\* every key reported missing is a collected key; a rendered document is
\* its template with the captures replaced and all other text in place; and
\* a batch without any placeholder collects no key, reports nothing, fails
\* for no reason other than its flags, and is rendered and written as it is.
C10_NonMatchingTextUntouched ==
    (run.pc \notin {"idle", "start"}) =>
      /\ run.env_vars = FormKeysOf(run.templates, "env_key")
      /\ run.values_paths = FormKeysOf(run.templates, "values_path")
      /\ Range(run.missing_env) \subseteq run.env_vars
      /\ Range(run.missing_values) \subseteq
           run.values_paths \cup {env_var_values_path(k) : k \in run.env_vars}
      /\ \A i \in 1..Len(run.rendered_outputs) :
           TextKeptAround(run, run.templates[i], run.rendered_outputs[i])
      /\ (\A i \in 1..Len(run.templates) : DocForms[run.templates[i]] = {}) =>
           /\ run.env_vars = {} /\ run.values_paths = {}
           /\ run.missing_env = <<>> /\ run.missing_values = <<>>
           /\ ~run.report.some
           /\ run.error \in {"", "force_without_create_values_file"}
           /\ \A i \in 1..Len(run.rendered_outputs) :
                run.rendered_outputs[i] = run.templates[i]
           /\ run.pc = "done" => run.written = Some(write_outputs(run.templates))

\* A batch of the malformed document and a document with a comment
\* "# {{ $B }}" has been written: the first as it is, the second with the
\* braces around the value of B still in place.
C10_Witness ==
    /\ run.pc = "done"
    /\ run.templates = <<DocBroken, DocValue>>
    /\ run.rendered_outputs[1] = DocBroken
    /\ run.rendered_outputs[2] =
         Chars("  s: ") \o run.values_map[Chars("a")] \o Chars(" # {{ ")
           \o run.env_map[KeyB] \o Chars(" }}\n")
    /\ run.written.some

\* The text the resolution has for the key of a capture ("" when none).
ResolvedText(r, cap) ==
    IF cap.group = 1 THEN GetOrDefault(r.values_map, cap.key)
    ELSE GetOrDefault(r.env_map, cap.key)

\* The offset in the rendered document where the replacement of capture k
\* starts, when texts[j] replaced capture j for every j before k.
RenderedOffset(caps, texts, k) ==
    LET shift[j \in 0..(k - 1)] ==
          IF j = 0 THEN 0
          ELSE shift[j - 1] + Len(texts[j]) - (caps[j].end - caps[j].start)
    IN caps[k].start + shift[k - 1]

\* C11: rendering is one pass.  Without --indent the rendered document
\* holds, at the place of every capture of its template, the resolved text
\* of the capture's key as it is, placeholder syntax included, and is as
\* long as the template with these texts in place of the captures; and the
\* keys collected and the keys reported missing are keys of the templates'
\* own placeholders, not keys that occur in resolved texts only.
C11_SinglePass ==
    (run.pc \notin {"idle", "start"}) =>
      /\ run.env_vars \subseteq FormKeysOf(run.templates, "env_key")
      /\ run.values_paths \subseteq FormKeysOf(run.templates, "values_path")
      /\ \A k \in Range(run.missing_env) : k \in FormKeysOf(run.templates, "env_key")
      /\ \A p \in Range(run.missing_values) :
           \/ p \in FormKeysOf(run.templates, "values_path")
           \/ \E k \in FormKeysOf(run.templates, "env_key") : p = env_var_values_path(k)
      /\ ~run.args.indent =>
           \A i \in 1..Len(run.rendered_outputs) :
             LET caps  == captures_iter(run.templates[i])
                 texts == [k \in 1..Len(caps) |-> ResolvedText(run, caps[k])]
                 out   == run.rendered_outputs[i]
             IN /\ \A k \in 1..Len(caps) :
                     Slice(out, RenderedOffset(caps, texts, k),
                           RenderedOffset(caps, texts, k) + Len(texts[k])) = texts[k]
                /\ Len(out) + Len(Concat([k \in 1..Len(caps) |->
                                            Slice(run.templates[i], caps[k].start, caps[k].end)]))
                     = Len(run.templates[i]) + Len(Concat(texts))

\* The value of a is "{{ A }}$C": it has been written into the document as
\* it is, although A resolves to "x"; C is no key of the run.
C11_Witness ==
    /\ run.pc = "done"
    /\ ~run.args.indent
    /\ run.templates = <<DocValue>>
    /\ run.values_map[Chars("a")] = Chars("{{ A }}$C")
    /\ KeyB \in DOMAIN run.env_map
    /\ run.rendered_outputs[1] =
         Chars("  s: {{ A }}$C # {{ ") \o run.env_map[KeyB] \o Chars(" }}\n")
    /\ Chars("C") \notin run.env_vars
    /\ KeyA \notin run.env_vars

\* The offset in the rendered document of the byte at offset p of the
\* template, p outside every capture, when texts[j] replaced capture j.
KeptOffset(caps, texts, p) ==
    LET before == {j \in 1..Len(caps) : caps[j].end <= p}
        shift[j \in 0..Len(caps)] ==
          IF j = 0 THEN 0
          ELSE shift[j - 1] + (IF j \in before
                               THEN Len(texts[j]) - (caps[j].end - caps[j].start) ELSE 0)
    IN p + shift[Len(caps)]

\* C12: rendering alters no byte outside the matched spans.  Every byte of
\* the template that no capture covers stands in the rendered document,
\* moved only by the length changes of the replacements before it; between
\* them stand the replacements, and nothing else; a template without
\* captures is rendered as itself.
C12_BytesOutsideSpansKept ==
    (run.pc # "idle") =>
    \A i \in 1..Len(run.rendered_outputs) :
      LET input == run.templates[i]
          caps  == captures_iter(input)
          texts == [k \in 1..Len(caps) |-> Replacement(run, input, caps[k])]
          out   == run.rendered_outputs[i]
      IN /\ \A p \in Uncaptured(caps, Len(input)) :
              At(out, KeptOffset(caps, texts, p)) = input[p + 1]
         /\ \A k \in 1..Len(caps) :
              Slice(out, RenderedOffset(caps, texts, k),
                    RenderedOffset(caps, texts, k) + Len(texts[k])) = texts[k]
         /\ Len(out) = KeptOffset(caps, texts, Len(input))
         /\ caps = <<>> => out = input

\* "name: {{ .Values.a.b }}" with the values document {a: {b: 7}} has been
\* rendered to "name: 7", the line before it and the newlines in place.
C12_Witness ==
    /\ run.pc = "done"
    /\ run.templates = <<DocMixed>>
    /\ run.values_yaml = Some(YMap(<< <<Chars("a"), YMap(<< <<Chars("b"), YNum(7)>> >>)>> >>))
    /\ run.rendered_outputs = <<Chars("n: ") \o run.env_map[KeyA] \o Chars("\nname: 7\n")>>

\* The line of the text around the span [start, end): what stands before
\* the span on the line of its start, what stands after it on the line of
\* its end, and the whitespace the first of these lines begins with.
LineContext(text, start, end) ==
    LET from == Max({0} \cup {i \in 1..start : text[i] = "\n"})
        to   == Min({Len(text)} \cup {i \in end..(Len(text) - 1) : text[i + 1] = "\n"})
        line == Slice(text, from, start)
        ws   == Max({0} \cup {n \in 1..Len(line) : \A j \in 1..n : line[j] \in Whitespace})
    IN [prefix |-> line, suffix |-> Slice(text, end, to), indent |-> SubSeq(line, 1, ws)]

\* C13: with --indent every replacement of a document with several
\* occurrences is computed from the offsets of its occurrence in the
\* template: it is the reinsertion of the resolved text for the span
\* [start, end) of the template, so it depends on the resolved text and on
\* the prefix, suffix and indentation of the occurrence's line in the
\* template only, and stands in the rendered document at the offset of the
\* span shifted by the length changes of the replacements before it.
C13_OffsetsOfOriginalText ==
    (run.pc # "idle" /\ run.args.indent) =>
      \A i \in 1..Len(run.rendered_outputs) :
        LET input == run.templates[i]
            caps  == captures_iter(input)
            texts == [k \in 1..Len(caps) |->
                        format_replacement_with_indent(ResolvedText(run, caps[k]), input,
                                                       caps[k].start, caps[k].end)]
            out   == run.rendered_outputs[i]
        IN /\ \A k \in 1..Len(caps) :
                Slice(out, RenderedOffset(caps, texts, k),
                      RenderedOffset(caps, texts, k) + Len(texts[k])) = texts[k]
           /\ \A k, m \in 1..Len(caps) :
                (/\ ResolvedText(run, caps[k]) = ResolvedText(run, caps[m])
                 /\ LineContext(input, caps[k].start, caps[k].end)
                      = LineContext(input, caps[m].start, caps[m].end))
                => texts[k] = texts[m]
           /\ Len(out) = KeptOffset(caps, texts, Len(input))

\* "k: $B {{ A }}-${A}" with A = "x\n y": the first replacement of A puts
\* " y" at the start of a line of the rendered text, yet the block scalar
\* of the second one is indented from the template's line, which has no
\* indentation: by two columns.
C13_Witness ==
    /\ run.pc = "done" /\ run.args.indent
    /\ run.templates = <<DocEnv>>
    /\ run.env_map[KeyA] = Chars("x\n y")
    /\ run.env_map[KeyB] = Chars("true")
    /\ run.rendered_outputs = <<Chars("k: true x\n y-|\n  x\n   y")>>

(***************************************************************************)
(* Properties of the indentation-aware reinsertion.                        *)
(***************************************************************************)

MultiLine(value) == \E i \in 1..Len(value) : value[i] = "\n"

\* The line of the occurrence format_replacement_with_indent was called for.
FmtLine == LineContext(fmt.input, fmt.match_start, fmt.match_end)

\* (a) the text before the occurrence on its line ends, whitespace aside,
\* in ':' or '-'; (b) the text after it on the line is whitespace.
PromotionApplies(line) ==
    /\ \E j \in 1..Len(line.prefix) :
         /\ line.prefix[j] \in {":", "-"}
         /\ \A m \in (j + 1)..Len(line.prefix) : line.prefix[m] \in Whitespace
    /\ IsWs(line.suffix)

\* The place in a continued text of character i of value, when indent was
\* put after each of the newlines before it.
ContinuedPlace(value, indent, i) ==
    i + Cardinality({j \in 1..(i - 1) : value[j] = "\n"}) * Len(indent)

\* out is value with indent after each newline of the set after.
ContinuedWith(value, indent, after, out) ==
    /\ Len(out) = Len(value) + Cardinality(after) * Len(indent)
    /\ \A i \in 1..Len(value) : out[ContinuedPlace(value, indent, i)] = value[i]
    /\ \A i \in after :
         SubSeq(out, ContinuedPlace(value, indent, i) + 1,
                     ContinuedPlace(value, indent, i) + Len(indent)) = indent

\* C14 as stated: inline continuation puts the leading whitespace of the
\* occurrence's line after every newline of the resolved text.
C14_EveryNewlineIndented ==
    (fmt.pc = "returned" /\ MultiLine(fmt.value) /\ ~PromotionApplies(FmtLine)) =>
      ContinuedWith(fmt.value, FmtLine.indent,
                    {i \in 1..Len(fmt.value) : fmt.value[i] = "\n"}, fmt.out)

\* C14: inline continuation puts the leading whitespace of the occurrence's
\* line after every newline of the resolved text that is not its last
\* character, and leaves the resolved text otherwise as it is; a newline
\* that ends the resolved text is followed by nothing.
C14_InlineContinuation ==
    (fmt.pc = "returned" /\ MultiLine(fmt.value) /\ ~PromotionApplies(FmtLine)) =>
      ContinuedWith(fmt.value, FmtLine.indent,
                    {i \in 1..(Len(fmt.value) - 1) : fmt.value[i] = "\n"}, fmt.out)

\* "a\n\n b" after "\t k:x ${A}x": the tab and the space follow both
\* newlines.
C14_Witness ==
    /\ fmt.pc = "returned"
    /\ FmtLine.prefix = Chars("\t k:x ")
    /\ FmtLine.suffix = Chars("x")
    /\ fmt.value = Chars("a\n\n b")
    /\ fmt.out = Chars("a\n\t \n\t  b")

\* The text starts with a block scalar header: '|' or '|+', then a newline.
StartsWithHeader(out) ==
    \/ StartsWithAt(out, 0, <<"|", "\n">>)
    \/ StartsWithAt(out, 0, <<"|", "+", "\n">>)

\* C15: a resolved text without a newline is substituted as it is; a
\* multi-line one becomes a block scalar if and only if the text before the
\* occurrence on its line ends, trailing whitespace aside, in ':' or '-'
\* and the text after it on the line is empty once trimmed, and is
\* continued inline in every other case.
C15_PromotionChoice ==
    (fmt.pc = "returned") =>
      IF ~MultiLine(fmt.value) THEN fmt.out = fmt.value
      ELSE /\ PromotionApplies(FmtLine) <=> StartsWithHeader(fmt.out)
           /\ PromotionApplies(FmtLine) =>
                fmt.out = format_as_yaml_block_scalar(fmt.value, fmt.input, fmt.match_start)
           /\ ~PromotionApplies(FmtLine) =>
                fmt.out = indent_multiline_value(fmt.value, fmt.input, fmt.match_start)

\* "a\nb" at "- k:<tab>${A} <tab>" (more lines follow) became a block
\* scalar; the same value at "k:x ${A}" would not.
C15_Witness ==
    /\ fmt.pc = "returned"
    /\ FmtLine.prefix = Chars("  - k:\t")
    /\ FmtLine.suffix = Chars(" \t")
    /\ fmt.value = Chars("a\nb")
    /\ StartsWithHeader(fmt.out)

\* The lines of a value: the texts between its newlines, a newline at the
\* end of the value ending its last line.
BlockScalarLines(value) ==
    LET pieces == SplitOn(value, "\n")
    IN IF value # <<>> /\ value[Len(value)] = "\n"
       THEN SubSeq(pieces, 1, Len(pieces) - 1) ELSE pieces

\* The block scalar of a value at an indentation: the header, then every
\* line of the value after the indentation and two spaces, each ended as in
\* the value.
BlockScalarOf(value, indent) ==
    LET lines  == BlockScalarLines(value)
        header == IF /\ Len(value) >= 2
                     /\ value[Len(value)] = "\n" /\ value[Len(value) - 1] = "\n"
                  THEN <<"|", "+">> ELSE <<"|">>
    IN header \o <<"\n">> \o
       Concat([k \in 1..Len(lines) |->
                 indent \o <<" ", " ">> \o lines[k]
                   \o (IF k < Len(lines) \/ value[Len(value)] = "\n" THEN <<"\n">> ELSE <<>>)])

\* C16: a promoted occurrence is replaced by a header, '|+' when the
\* resolved text ends in two or more newlines and '|' otherwise, a newline,
\* and every line of the resolved text, empty lines included, after the
\* leading whitespace of the occurrence's line and two spaces.
C16_BlockScalarShape ==
    (fmt.pc = "returned" /\ MultiLine(fmt.value) /\ PromotionApplies(FmtLine)) =>
      fmt.out = BlockScalarOf(fmt.value, FmtLine.indent)

\* " a\nb\n\n\n" at "<tab> k: ${A}": header '|+', four lines, two of them
\* empty, each after the tab, the space and two spaces.
C16_Witness ==
    /\ fmt.pc = "returned"
    /\ FmtLine.prefix = Chars("\t k: ")
    /\ IsWs(FmtLine.suffix)
    /\ fmt.value = Chars(" a\nb\n\n\n")
    /\ fmt.out = Chars("|+\n\t    a\n\t   b\n\t   \n\t   \n")

(***************************************************************************)
(* How a YAML reader (serde_yaml::from_str in the tests) takes a literal   *)
(* block scalar: the content indentation is that of the first non-blank    *)
(* line, at least one more than the indentation of the entry the scalar    *)
(* is the value of; blank lines before it hold no more spaces; the content *)
(* is every following line that is blank or indented that much.           *)
(***************************************************************************)

\* The number of spaces a line starts with.
SpacesAtStart(line) == SkipClass(line, 0, {" "})

IsBlankLine(line) == \A i \in 1..Len(line) : line[i] = " "

\* The text of the occurrence's line between its indentation and the
\* occurrence.
EntryText(line) == SubSeq(line.prefix, Len(line.indent) + 1, Len(line.prefix))

\* key ": "
IsKeyColon(t) ==
    /\ Len(t) >= 3
    /\ IsIdent(SubSeq(t, 1, Len(t) - 2))
    /\ SubSeq(t, Len(t) - 1, Len(t)) = <<":", " ">>

\* The occurrence is all there is of a sequence item ("- "), of a mapping
\* value ("key: ") or of the value of a mapping that starts a sequence item
\* ("- key: "), on a line indented with spaces.
SoleContent(line) ==
    /\ IsBlankLine(line.indent)
    /\ IsBlankLine(line.suffix)
    /\ \/ EntryText(line) = <<"-", " ">>
       \/ IsKeyColon(EntryText(line))
       \/ /\ StartsWithAt(EntryText(line), 0, <<"-", " ">>)
          /\ IsKeyColon(SubSeq(EntryText(line), 3, Len(EntryText(line))))

\* The indentation of the entry the occurrence is the value of: the column
\* of the dash of the item, or of the key of the mapping.
EntryIndent(line) ==
    Len(line.indent)
      + (IF StartsWithAt(EntryText(line), 0, <<"-", " ">>) /\ Len(EntryText(line)) > 2
         THEN 2 ELSE 0)

\* The lines after the header of a block scalar text.
ContentLines(out) ==
    BlockScalarLines(SubSeq(out, (IF StartsWithAt(out, 0, <<"|", "+">>) THEN 4 ELSE 3), Len(out)))

\* A reader at an entry of indentation n takes the whole text as one
\* literal block scalar.
ReadsAsBlockScalar(n, out) ==
    /\ StartsWithHeader(out)
    /\ LET lines    == ContentLines(out)
           nonblank == {i \in 1..Len(lines) : ~IsBlankLine(lines[i])}
           first    == IF nonblank = {} THEN Len(lines) + 1 ELSE Min(nonblank)
           content  == IF nonblank = {} THEN n + 1
                       ELSE Max({n + 1, SpacesAtStart(lines[first])})
       IN /\ \A i \in 1..(first - 1) : nonblank # {} => Len(lines[i]) <= content
          /\ \A i \in nonblank : SpacesAtStart(lines[i]) >= content

\* C17: with indentation-aware reinsertion a multi-line value in the place
\* of a placeholder that is the sole content of a sequence item or of a
\* mapping value becomes a literal block scalar that a YAML reader takes as
\* one scalar, the value of that entry, so that the document keeps its
\* structure.
C17_StaysValidYaml ==
    (fmt.pc = "returned" /\ MultiLine(fmt.value) /\ SoleContent(FmtLine)) =>
      ReadsAsBlockScalar(EntryIndent(FmtLine), fmt.out)

(***************************************************************************)
(* Prompt contexts: collect_prompt_contexts and extract_prompt_context.    *)
(* Lines are numbered from 1 here (from 0 in the source); a line range is  *)
(* <<start, end>> with 0-based offsets, the newline included.              *)
(***************************************************************************)

\* line_ranges: a range per '\n', one more for text after the last '\n',
\* <<0, 0>> for the empty text.
line_ranges(input) ==
    Bind(input, LAMBDA s :
      LET nl     == {i \in 1..Len(s) : s[i] = "\n"}
          cut(k) == IF k = 0 THEN 0
                    ELSE CHOOSE i \in nl : Cardinality({j \in nl : j < i}) = k - 1
          ranges == [k \in 1..Cardinality(nl) |-> <<cut(k - 1), cut(k)>>]
          start  == cut(Cardinality(nl))
          all    == IF start < Len(s) THEN Append(ranges, <<start, Len(s)>>) ELSE ranges
      IN IF all = <<>> THEN << <<0, 0>> >> ELSE all)

\* line_index_for_pos: the first line whose range holds pos.
line_index_for_pos(lines, pos) ==
    LET hits == {k \in 1..Len(lines) : lines[k][1] <= pos /\ pos < lines[k][2]}
    IN IF hits = {} THEN None ELSE Some(Min(hits))

\* A variant of trim_line_ending that strips '\n' only.
trim_line_ending_newline_only(line) ==
    SubSeq(line, 1, Max({0} \cup {i \in 1..Len(line) : line[i] # "\n"}))

\* trim_line_ending: trim_end_matches(['\r', '\n'])
trim_line_ending(line) ==
    SubSeq(line, 1, Max({0} \cup {i \in 1..Len(line) : line[i] \notin {"\r", "\n"}}))

\* trim_surrounding_newlines: trim_matches(['\r', '\n'])
trim_surrounding_newlines(s) ==
    Bind(trim_line_ending(s), LAMBDA t :
      SubSeq(t, SkipClass(t, 0, {"\r", "\n"}) + 1, Len(t)))

\* &input[lines[idx].0..lines[idx].1]
LineText(input, lines, idx) == Slice(input, lines[idx][1], lines[idx][2])

\* trim_line_ending(line).trim().is_empty()
IsBlankRange(input, lines, idx) == Trim(trim_line_ending(LineText(input, lines, idx))) = <<>>

\* A variant of paragraph_bounds that starts the paragraph at the
\* occurrence's line.
paragraph_bounds_forward_only(input, lines, line_idx) ==
    LET fwd[e \in 1..Len(lines)] ==
          IF e + 1 <= Len(lines) /\ ~IsBlankRange(input, lines, e + 1) THEN fwd[e + 1] ELSE e
    IN <<line_idx, fwd[line_idx]>>

\* paragraph_bounds: back to the line after the closest blank line above,
\* on to the line before the closest blank line below.
paragraph_bounds(input, lines, line_idx) ==
    LET back[b \in 1..Len(lines)] ==
          IF b > 1 /\ ~IsBlankRange(input, lines, b - 1) THEN back[b - 1] ELSE b
        fwd[e \in 1..Len(lines)] ==
          IF e + 1 <= Len(lines) /\ ~IsBlankRange(input, lines, e + 1) THEN fwd[e + 1] ELSE e
    IN <<back[line_idx], fwd[line_idx]>>

\* collect_prompt_keys: the prompt keys of the captures of a text.
collect_prompt_keys(text) ==
    Bind(captures_iter(text), LAMBDA caps : {PromptKey(caps[i]) : i \in 1..Len(caps)})

\* is_list_item_line: after trim_start, "- ", or digits, '.' or ')', ' '.
is_list_item_line(line) ==
    Bind(TrimStart(line), LAMBDA trimmed :
      \/ StartsWithAt(trimmed, 0, <<"-", " ">>)
      \/ LET d == SkipClass(trimmed, 0, Digit)
         IN d > 0 /\ At(trimmed, d) \in {".", ")"} /\ At(trimmed, d + 1) = " ")

\* leading_spaces: chars().take_while(|c| *c == ' ').count()
leading_spaces(line) == SkipClass(line, 0, {" "})

\* A variant of list_entry_bounds that ends the item only before a marker
\* indented less than the anchor.
list_entry_bounds_less_indented(input, lines, line_idx, para_start, para_end) ==
    LET text(idx) == trim_line_ending(LineText(input, lines, idx))
        anchors   == {idx \in para_start..line_idx : is_list_item_line(text(idx))}
    IN IF anchors = {} THEN None
       ELSE LET anchor_idx    == Max(anchors)
                anchor_indent == leading_spaces(text(anchor_idx))
                last[idx \in (anchor_idx + 1)..(para_end + 1)] ==
                  IF idx > para_end THEN para_end
                  ELSE IF Trim(text(idx)) = <<>> THEN idx - 1
                  ELSE IF is_list_item_line(text(idx)) /\ leading_spaces(text(idx)) < anchor_indent
                  THEN idx - 1
                  ELSE last[idx + 1]
            IN Some(<<anchor_idx, last[anchor_idx + 1]>>)

\* list_entry_bounds: the anchor is the closest list item line from line_idx
\* back to para_start; the entry ends before the first later blank line or
\* list item line indented no deeper than the anchor, else at para_end.
list_entry_bounds(input, lines, line_idx, para_start, para_end) ==
    LET text(idx) == trim_line_ending(LineText(input, lines, idx))
        anchors   == {idx \in para_start..line_idx : is_list_item_line(text(idx))}
    IN IF anchors = {} THEN None
       ELSE LET anchor_idx    == Max(anchors)
                anchor_indent == leading_spaces(text(anchor_idx))
                last[idx \in (anchor_idx + 1)..(para_end + 1)] ==
                  IF idx > para_end THEN para_end
                  ELSE IF Trim(text(idx)) = <<>> THEN idx - 1
                  ELSE IF is_list_item_line(text(idx)) /\ leading_spaces(text(idx)) <= anchor_indent
                  THEN idx - 1
                  ELSE last[idx + 1]
            IN Some(<<anchor_idx, last[anchor_idx + 1]>>)

\* extract_prompt_context for the capture cap of input, prompted under key.
extract_prompt_context(input, cap, key, extended_context) ==
    LET lines    == line_ranges(input)
        found    == line_index_for_pos(lines, cap.start)
        line_idx == IF found.some THEN found.val ELSE 1
        line     == trim_line_ending(LineText(input, lines, line_idx))
    IN IF ~extended_context THEN line
       ELSE
         LET para      == paragraph_bounds(input, lines, line_idx)
             para_text == Slice(input, lines[para[1]][1], lines[para[2]][2])
             keys      == collect_prompt_keys(para_text)
         IN IF Cardinality(keys) = 1 /\ key \in keys
            THEN trim_surrounding_newlines(para_text)
            ELSE LET entry == list_entry_bounds(input, lines, line_idx, para[1], para[2])
                 IN IF entry.some
                    THEN trim_surrounding_newlines(
                           Slice(input, lines[entry.val[1]][1], lines[entry.val[2]][2]))
                    ELSE line

\* format!("[{}]\n{}", path.display(), text) when the batch has several
\* templates.
FileHeader(templates, t) ==
    IF Len(templates) > 1 THEN <<"[">> \o templates[t].path \o <<"]", "\n">> ELSE <<>>

\* The captures of a batch in the order of the two for loops, each with the
\* index of its template.
BatchCaptures(templates) ==
    Concat([t \in 1..Len(templates) |->
              Bind(captures_iter(templates[t].input), LAMBDA caps :
                [i \in 1..Len(caps) |-> [t |-> t, cap |-> caps[i]]])])

(***************************************************************************)
(* SpecContext: collect_prompt_contexts over batches of templates made of  *)
(* list items, nested and numbered markers, blank and whitespace-only      *)
(* lines, LF and CRLF line ends, the texts of the tests, and placeholders  *)
(* that run over a line end.                                               *)
(***************************************************************************)
MaxLines == 3

ContextLineTexts ==
    {Chars("- u: ${A}"), Chars("  - u: $B"), Chars("    3) n: x"),
     Chars("    n: {{ .Values.environment.A }}"), <<>>, Chars(" \t"),
     Chars("t: $B"), Chars("\t1. $A"), Chars("-x: {{ C }}")}

\* The texts of n lines, each ended by eol.
LinesEndedBy(n, eol) ==
    LET docs[k \in 0..n] ==
          IF k = 0 THEN {<<>>}
          ELSE {d \o l \o eol : d \in docs[k - 1], l \in ContextLineTexts}
    IN docs[n]

\* A text without the line end that ends it.
WithoutLastLineEnd(text, eol) == SubSeq(text, 1, Len(text) - Len(eol))

ContextDocs ==
    UNION {LinesEndedBy(n, <<"\n">>) : n \in 1..MaxLines}
      \cup LinesEndedBy(2, <<"\r", "\n">>)
      \cup {WithoutLastLineEnd(d, <<"\n">>) : d \in LinesEndedBy(2, <<"\n">>)}
      \cup {WithoutLastLineEnd(d, <<"\r", "\n">>) : d \in LinesEndedBy(2, <<"\r", "\n">>)}
      \cup {Chars("image: ${A}\n"),
            Chars("title: ${A}\nnotes: hello\n\nother: x\n"),
            Chars("items:\n  - user: ${A}\n    note: x\n  - user: ${B}\n"),
            Chars("k: {{\n A }}\nz\n"),
            Chars("x\n$B {{\n\nA }}\n"),
            Chars("x\n{{ A\n\n}}\n"),
            Chars("- x\n$B {{\n\nA }}\n"),
            <<>>}

\* The batches: every text alone, and the texts of the tests in pairs.
ContextBatches ==
    {<<[path |-> Chars("t"), input |-> d]>> : d \in ContextDocs}
      \cup {<<[path |-> Chars("a"), input |-> d1], [path |-> Chars("b/c"), input |-> d2]>> :
              d1, d2 \in {Chars("image: ${A}\n"),
                          Chars("title: ${A}\nnotes: hello\n\nother: x\n"),
                          Chars("items:\n  - user: ${A}\n    note: x\n  - user: ${B}\n")}}

\* collect_prompt_contexts is called: out is empty, the loops are before
\* the first capture.
ContextInit ==
    /\ \E templates \in ContextBatches, extended_context \in BOOLEAN :
         ctx = [pc |-> "collecting",
                templates |-> templates,
                extended_context |-> extended_context,
                todo |-> BatchCaptures(templates),
                out |-> EmptyMap]
    /\ run = Idle
    /\ twin = Idle
    /\ scan = Idle
    /\ yq = Idle
    /\ fmt = Idle

\* A variant of the pass that inserts the context of every capture, a later
\* occurrence replacing the context of an earlier one.
CollectPromptContextOverwriting ==
    /\ ctx.pc = "collecting"
    /\ ctx.todo # <<>>
    /\ LET t     == Head(ctx.todo).t
           cap   == Head(ctx.todo).cap
           key   == PromptKey(cap)
           input == ctx.templates[t].input
       IN ctx' = [ctx EXCEPT
                    !.todo = Tail(ctx.todo),
                    !.out = MapPut(ctx.out, key,
                                   FileHeader(ctx.templates, t)
                                     \o extract_prompt_context(input, cap, key,
                                                               ctx.extended_context))]
    /\ UNCHANGED <<run, twin, scan, yq, fmt>>

\* One pass of the inner loop: a capture whose key has a context already is
\* skipped, else its context is extracted and inserted.
CollectPromptContext ==
    /\ ctx.pc = "collecting"
    /\ ctx.todo # <<>>
    /\ LET t     == Head(ctx.todo).t
           cap   == Head(ctx.todo).cap
           key   == PromptKey(cap)
           input == ctx.templates[t].input
       IN ctx' = [ctx EXCEPT
                    !.todo = Tail(ctx.todo),
                    !.out = IF key \in DOMAIN ctx.out THEN ctx.out
                            ELSE MapPut(ctx.out, key,
                                        FileHeader(ctx.templates, t)
                                          \o extract_prompt_context(input, cap, key,
                                                                    ctx.extended_context))]
    /\ UNCHANGED <<run, twin, scan, yq, fmt>>

\* The loops are over: collect_prompt_contexts returns out.
ReturnPromptContexts ==
    /\ ctx.pc = "collecting"
    /\ ctx.todo = <<>>
    /\ ctx' = [ctx EXCEPT !.pc = "returned"]
    /\ UNCHANGED <<run, twin, scan, yq, fmt>>

ContextNext == CollectPromptContext \/ ReturnPromptContexts

SpecContext == ContextInit /\ [][ContextNext]_vars

(***************************************************************************)
(* The excerpts as the specification describes them, on the offsets of the *)
(* text.  A line is named by the offset it starts at.                      *)
(***************************************************************************)

\* The offsets at which the lines of a text start.
LineStartsOf(input) == {0} \cup {i \in 1..(Len(input) - 1) : input[i] = "\n"}

\* The offset after the line that starts at s, its newline included.
LineStopOf(input, s) ==
    Min({i \in (s + 1)..Len(input) : input[i] = "\n"} \cup {Len(input)})

\* The line that holds offset pos.
LineOfOffset(input, pos) == Max({s \in LineStartsOf(input) : s <= pos})

\* A text without the line terminator (\n or \r\n) that ends it.
Unterminated(text) ==
    LET n == Len(text)
    IN IF n >= 2 /\ text[n - 1] = "\r" /\ text[n] = "\n" THEN SubSeq(text, 1, n - 2)
       ELSE IF n >= 1 /\ text[n] = "\n" THEN SubSeq(text, 1, n - 1)
       ELSE text

\* A blank or whitespace-only line.
BlankLineAt(input, s) ==
    \A i \in (s + 1)..LineStopOf(input, s) : input[i] \in Whitespace

\* The paragraph of the line at s0: the lines with no blank line from them
\* to s0.
ParagraphLines(input, s0) ==
    {s \in LineStartsOf(input) :
       \A b \in LineStartsOf(input) :
         ((s <= b /\ b <= s0) \/ (s0 <= b /\ b <= s)) => ~BlankLineAt(input, b)}

\* The keys of the placeholders of the text that lie in [from, to).
KeysWithin(input, from, to) ==
    Bind(captures_iter(input), LAMBDA caps :
      {PromptKey(caps[i]) : i \in {j \in 1..Len(caps) : from <= caps[j].start /\ caps[j].end <= to}})

ParagraphKeys(input, s0) ==
    KeysWithin(input, Min(ParagraphLines(input, s0)),
               LineStopOf(input, Max(ParagraphLines(input, s0))))

\* The line at s is a list marker: after its indentation stands "- ", or
\* digits, then '.' or ')', then a space.
MarkerLineAt(input, s) ==
    LET q == SkipClass(input, s, {" ", "\t"})
    IN \/ StartsWithAt(input, q, <<"-", " ">>)
       \/ \E n \in 1..(Len(input) - q) :
            /\ \A i \in 1..n : input[q + i] \in Digit
            /\ At(input, q + n) \in {".", ")"}
            /\ At(input, q + n + 1) = " "

\* The indentation of the line at s: the spaces it starts with.
IndentationAt(input, s) == SkipClass(input, s, {" "}) - s

\* The list markers of the paragraph at or before the line at s0.
AnchorsAt(input, s0) ==
    {s \in ParagraphLines(input, s0) : s <= s0 /\ MarkerLineAt(input, s)}

\* The nearest list item of the line at s0, from its anchor to the line
\* before the first later marker indented no deeper, else to the end of the
\* paragraph.
NearestListItem(input, s0) ==
    LET anchor == Max(AnchorsAt(input, s0))
        later  == {s \in ParagraphLines(input, s0) :
                     /\ s > anchor
                     /\ MarkerLineAt(input, s)
                     /\ IndentationAt(input, s) <= IndentationAt(input, anchor)}
        stop   == IF later = {} THEN LineStopOf(input, Max(ParagraphLines(input, s0)))
                  ELSE Min(later)
    IN Unterminated(Slice(input, anchor, stop))

WholeParagraph(input, s0) ==
    Unterminated(Slice(input, Min(ParagraphLines(input, s0)),
                       LineStopOf(input, Max(ParagraphLines(input, s0)))))

SingleLine(input, s0) == Unterminated(Slice(input, s0, LineStopOf(input, s0)))

\* The occurrence a key's context is taken from: the first capture of the
\* batch with that key.
FirstOccurrence(templates, key) ==
    Bind(BatchCaptures(templates), LAMBDA all :
      all[Min({i \in 1..Len(all) : PromptKey(all[i].cap) = key})])

\* The context of key is the excerpt chosen by Excerpt(input, s0) for the
\* line s0 of the key's first occurrence, after the file header.
ContextIs(key, Excerpt(_, _)) ==
    LET o     == FirstOccurrence(ctx.templates, key)
        input == ctx.templates[o.t].input
    IN ctx.out[key] = FileHeader(ctx.templates, o.t)
                        \o Excerpt(input, LineOfOffset(input, o.cap.start))

\* The input and the line of the first occurrence of key.
ContextInput(key) == ctx.templates[FirstOccurrence(ctx.templates, key).t].input
ContextLine(key) ==
    LineOfOffset(ContextInput(key), FirstOccurrence(ctx.templates, key).cap.start)

\* C18: with extended context, when the paragraph of the occurrence holds
\* placeholders of more than one key and a list marker stands at or above
\* the occurrence's line in it, the context is the nearest list item.
C18_NearestListItem ==
    (ctx.pc # "idle" /\ ctx.extended_context) =>
      \A key \in DOMAIN ctx.out :
        (/\ Cardinality(ParagraphKeys(ContextInput(key), ContextLine(key))) > 1
         /\ AnchorsAt(ContextInput(key), ContextLine(key)) # {})
          => ContextIs(key, NearestListItem)

\* C18 witness: the test's text; the context of B is its own list item.
C18_Witness ==
    /\ ctx.pc = "returned"
    /\ ctx.extended_context
    /\ Len(ctx.templates) = 1
    /\ ctx.templates[1].input = Chars("items:\n  - user: ${A}\n    note: x\n  - user: ${B}\n")
    /\ ctx.out[Chars("environment.B")] = Chars("  - user: ${B}")
    /\ ctx.out[Chars("environment.A")] = Chars("  - user: ${A}\n    note: x")

\* C19 as stated: with extended context, when the placeholders of the
\* paragraph name exactly one key, the context is the whole paragraph.
C19_SingleKeyParagraph ==
    (ctx.pc # "idle" /\ ctx.extended_context) =>
      \A key \in DOMAIN ctx.out :
        Cardinality(ParagraphKeys(ContextInput(key), ContextLine(key))) = 1
          => ContextIs(key, WholeParagraph)

\* C19: with extended context, when the placeholders of the paragraph name
\* exactly one key and it is the key of the occurrence, the context is the
\* whole paragraph, its line terminator trimmed.
C19_OwnKeyParagraph ==
    (ctx.pc # "idle" /\ ctx.extended_context) =>
      \A key \in DOMAIN ctx.out :
        ParagraphKeys(ContextInput(key), ContextLine(key)) = {key}
          => ContextIs(key, WholeParagraph)

\* C19 witness: the test's text before a second template; the context of A
\* is the paragraph of two lines of the first, after the file header.
C19_Witness ==
    /\ ctx.pc = "returned"
    /\ ctx.extended_context
    /\ Len(ctx.templates) = 2
    /\ ctx.templates[1].input = Chars("title: ${A}\nnotes: hello\n\nother: x\n")
    /\ ctx.templates[2].input = Chars("image: ${A}\n")
    /\ ctx.out[Chars("environment.A")] = Chars("[a]\ntitle: ${A}\nnotes: hello")

\* C20: without extended context, and with it when the paragraph holds
\* placeholders of more than one key and no list marker at or above the
\* occurrence's line, the context is the line of the occurrence's start,
\* its line terminator trimmed.
C20_SingleLine ==
    (ctx.pc # "idle") =>
      \A key \in DOMAIN ctx.out :
        (\/ ~ctx.extended_context
         \/ /\ Cardinality(ParagraphKeys(ContextInput(key), ContextLine(key))) > 1
            /\ AnchorsAt(ContextInput(key), ContextLine(key)) = {})
          => ContextIs(key, SingleLine)

\* C20 witness: CRLF lines with two keys and no list marker, extended
\* context; each key has its own line.
C20_Witness ==
    /\ ctx.pc = "returned"
    /\ ctx.extended_context
    /\ Len(ctx.templates) = 1
    /\ ctx.templates[1].input = Chars("t: $B\r\n-x: {{ C }}\r\n")
    /\ ctx.out[Chars("environment.B")] = Chars("t: $B")
    /\ ctx.out[Chars("environment.C")] = Chars("-x: {{ C }}")

\* The documents of a batch in which a key occurs.
DocumentsWith(templates, key) ==
    {t \in 1..Len(templates) :
       \E i \in 1..Len(captures_iter(templates[t].input)) :
         PromptKey(captures_iter(templates[t].input)[i]) = key}

\* The occurrence of key that starts first in a text.
EarliestIn(input, key) ==
    Bind(captures_iter(input), LAMBDA caps :
      LET mine == {i \in 1..Len(caps) : PromptKey(caps[i]) = key}
      IN caps[CHOOSE i \in mine : \A j \in mine : caps[i].start <= caps[j].start])

\* C21: the context stored for a key is the excerpt of the key's first
\* occurrence, that is the earliest occurrence in the first document that
\* holds the key, whatever occurrences follow; it stands after "[<path>]"
\* and a newline when the batch has more than one document, and alone
\* when it has one.
C21_FirstOccurrenceContext ==
    (ctx.pc # "idle") =>
      \A key \in DOMAIN ctx.out :
        LET t     == Min(DocumentsWith(ctx.templates, key))
            input == ctx.templates[t].input
            text  == extract_prompt_context(input, EarliestIn(input, key), key,
                                            ctx.extended_context)
        IN ctx.out[key] =
             IF Len(ctx.templates) > 1
             THEN <<"[">> \o ctx.templates[t].path \o <<"]", "\n">> \o text
             ELSE text

\* C21 witness: two documents that both hold A; the context of A is the
\* line of the first document, under its header.
C21_Witness ==
    /\ ctx.pc = "returned"
    /\ ~ctx.extended_context
    /\ Len(ctx.templates) = 2
    /\ ctx.templates[1].input = Chars("items:\n  - user: ${A}\n    note: x\n  - user: ${B}\n")
    /\ ctx.templates[2].input = Chars("image: ${A}\n")
    /\ ctx.out[Chars("environment.A")] = Chars("[a]\n  - user: ${A}")
    /\ ctx.out[Chars("environment.B")] = Chars("[a]\n  - user: ${B}")

(***************************************************************************)
(* SpecSet: set_yaml_path(root, path, value), then lookup_yaml_path of the *)
(* same path, as prompt_and_update_values_file writes an answer and run()  *)
(* resolves it.                                                            *)
(***************************************************************************)

\* The values written: text, a number, null, a mapping, a sequence.
SetValues ==
    << YStr(Chars("v")), YNum(3), YNull,
       YMap(<< <<Chars("b"), YBool(TRUE)>> >>), YSeq(<<YStr(<<>>)>>) >>

SetInit ==
    /\ \E r \in 1..Len(YamlRoots), parts \in PathParts, v \in 1..Len(SetValues) :
         yq = [pc |-> "before_set", root |-> YamlRoots[r], parts |-> parts,
               path |-> Join(parts), value |-> SetValues[v], found |-> None]
    /\ run = Idle
    /\ twin = Idle
    /\ scan = Idle
    /\ fmt = Idle
    /\ ctx = Idle

\* set_yaml_path(&mut root, &p, chosen)
SetPath ==
    /\ yq.pc = "before_set"
    /\ yq' = [yq EXCEPT !.pc = "set", !.root = set_yaml_path(yq.root, yq.path, yq.value)]
    /\ UNCHANGED <<run, twin, scan, fmt, ctx>>

\* lookup_yaml_path(&root, &p) on the document written.
LookupAfterSet ==
    /\ yq.pc = "set"
    /\ yq' = [yq EXCEPT !.pc = "read", !.found = lookup_yaml_path(yq.root, yq.path)]
    /\ UNCHANGED <<run, twin, scan, fmt, ctx>>

SetNext == SetPath \/ LookupAfterSet

SpecSet == SetInit /\ [][SetNext]_vars

\* C26: after set_yaml_path(root, p, v) the lookup of p returns v, whatever
\* root was, and every proper prefix of p leads to a mapping.
C26_SetThenLookup ==
    /\ (yq.pc = "read") => (yq.found.some /\ SameNode(yq.found.val, yq.value))
    /\ (yq.pc \in {"set", "read"}) =>
         \A n \in 1..(Len(yq.parts) - 1) :
           LET above == lookup_yaml_path(yq.root, Join(SubSeq(yq.parts, 1, n)))
           IN above.some /\ IsMapping(above.val)

\* C26 witness: a.b.0 written into a document in which a is text: a and a.b
\* have become mappings and the lookup returns the number written.
C26_Witness ==
    /\ yq.pc = "read"
    /\ yq.path = Chars("a.b.0")
    /\ SameNode(yq.root,
                YMap(<< <<Chars("a"), YMap(<< <<Chars("b"),
                                              YMap(<< <<Chars("0"), YNum(3)>> >>)>> >>)>>,
                        <<Chars("b"), YNull>>,
                        <<Chars("0"), YBool(FALSE)>> >>))
    /\ yq.found.some
    /\ SameNode(yq.found.val, YNum(3))

(***************************************************************************)
(* SpecAnswers: run() over batches whose keys overlap: a values path and   *)
(* its dotted prefix, an env key A and the values path environment.A, the  *)
(* values path environment; with a line typed for every prompt, or none.   *)
(***************************************************************************)
MaxTyped == 4

DocNested      == Chars("x: {{ .Values.a.b }} $A\n")
DocPrefix      == Chars("y: {{ .Values.a }} {{ .Values.environment.A }}\n")
DocEnvironment == Chars("z: ${B} {{ .Values.environment }}\n")

AnswerDocs == {DocNested, DocPrefix, DocEnvironment}

AnswerBatches == UNION {[1..n -> AnswerDocs] : n \in 1..MaxDocs}

AnswerValuesFiles ==
    { None,
      Some(YMap(<< <<Chars("a"), YStr(Chars("s"))>> >>)),
      Some(YMap(<< <<Chars("a"), YMap(<< <<Chars("c"), YNum(1)>> >>)>> >>)),
      Some(YMap(<< <<EnvironmentKey, YMap(<< <<KeyA, YStr(Chars("x"))>> >>)>> >>)),
      Some(YMap(<< <<Chars("a"), YMap(<< <<Chars("b"), YNum(7)>> >>)>>,
                   <<EnvironmentKey, YStr(Chars("e"))>> >>)) }

AnswerOsEnvs == { EmptyMap, (KeyA :> Chars("y")) }

\* The i-th line typed: v1, v2, ...
TypedLine(i) == Chars("v") \o NatText(i)

\* No line typed, or a line for each of the first MaxTyped prompts.
AnswerStdins == {<<>>, [i \in 1..MaxTyped |-> TypedLine(i)]}

AnswerArgSets ==
    [value_file_only : BOOLEAN, create_values_file : BOOLEAN, force : BOOLEAN,
     verbose : {FALSE}, indent : {FALSE}]

AnswersInit ==
    /\ \E args \in AnswerArgSets, templates \in AnswerBatches,
          values_file \in AnswerValuesFiles, os_env \in AnswerOsEnvs,
          stdin \in AnswerStdins :
         run = NewRun(args, templates, values_file, os_env, stdin)
    /\ twin = Idle
    /\ scan = Idle
    /\ yq = Idle
    /\ fmt = Idle
    /\ ctx = Idle

SpecAnswers == AnswersInit /\ [][Next]_vars

(***************************************************************************)
(* Properties of the prompt pass and of the missing lists.                 *)
(***************************************************************************)

\* The occurrences of a batch: <<document, start offset, prompt key>>.
KeyOccurrences(templates) ==
    UNION {{<<t, captures_iter(templates[t])[i].start,
              PromptKey(captures_iter(templates[t])[i])>> :
              i \in 1..Len(captures_iter(templates[t]))} :
           t \in 1..Len(templates)}

\* Occurrence o stands before occurrence q: in an earlier document, or
\* earlier in the same document.
OccursBefore(o, q) == o[1] < q[1] \/ (o[1] = q[1] /\ o[2] < q[2])

\* The first occurrence of a key.
FirstOf(occs, key) ==
    CHOOSE o \in occs : o[3] = key /\ \A q \in occs : q[3] = key => ~OccursBefore(q, o)

\* The distinct keys of a batch in the order of their first occurrences.
FirstSeenOrder(templates) ==
    Bind(KeyOccurrences(templates), LAMBDA occs :
      LET keys       == {o[3] : o \in occs}
          earlier(k) == {j \in keys : OccursBefore(FirstOf(occs, j), FirstOf(occs, k))}
      IN [n \in 1..Cardinality(keys) |->
            CHOOSE k \in keys : Cardinality(earlier(k)) = n - 1])

\* The place of a key in a list without repetitions.
PlaceIn(list, key) == CHOOSE i \in 1..Len(list) : list[i] = key

\* C22: the prompt order lists every distinct prompt key of the batch once,
\* in the order of the keys' first occurrences (document, then position),
\* and the prompts of the pass are issued in that order.
C22_PromptOrder ==
    (run.pc \notin {"idle", "start"}) =>
      Bind(FirstSeenOrder(run.templates), LAMBDA order :
        /\ run.prompt_order = order
        /\ \A i \in 1..Len(run.asked) : run.asked[i] \in Range(order)
        /\ \A i, j \in 1..Len(run.asked) :
             i < j => PlaceIn(order, run.asked[i]) < PlaceIn(order, run.asked[j]))

\* C22 witness: a, environment.A and a.b asked in the order of the
\* documents, which is not the order of their texts.
C22_Witness ==
    /\ run.pc = "prompted"
    /\ run.templates = <<DocPrefix, DocNested>>
    /\ run.prompt_order = <<Chars("a"), Chars("environment.A"), Chars("a.b")>>
    /\ run.asked = <<Chars("a"), Chars("environment.A"), Chars("a.b")>>

NoDuplicates(list) == \A i, j \in 1..Len(list) : i # j => list[i] # list[j]

\* C23: once the resolution is over no env key stands twice in the
\* missing-env list and no path twice in the missing-values list.
C23_MissingListsDeduplicated ==
    Resolved(run) => (NoDuplicates(run.missing_env) /\ NoDuplicates(run.missing_values))

\* The lines typed were enough: the i-th prompt of the pass got the i-th
\* line.
EveryPromptAnswered(r) ==
    LET seeded == Len(r.prompted_values) - Len(r.asked)
    IN \A i \in 1..Len(r.asked) :
         r.prompted_values[seeded + i] = <<r.asked[i], TypedLine(i)>>

\* p is q cut before one of its dots.
IsDottedPrefix(p, q) ==
    /\ Len(p) < Len(q)
    /\ StartsWithAt(q, 0, p)
    /\ q[Len(p) + 1] = "."

\* C27 as stated: after a prompt pass in which every prompt was answered
\* the resolution leaves both missing lists empty.
C27_AnsweredMeansResolved ==
    (Resolved(run) /\ run.args.create_values_file /\ EveryPromptAnswered(run)) =>
      (run.missing_env = <<>> /\ run.missing_values = <<>>)

\* C27: after a prompt pass in which every prompt was answered and no key
\* was asked after a key it is a dotted prefix of, the resolution leaves
\* both missing lists empty.
C27_AnsweredInOrderMeansResolved ==
    (/\ Resolved(run) /\ run.args.create_values_file /\ EveryPromptAnswered(run)
     /\ \A i, j \in 1..Len(run.asked) :
          i < j => ~IsDottedPrefix(run.asked[j], run.asked[i]))
      => (run.missing_env = <<>> /\ run.missing_values = <<>>)

\* C27 witness: a asked before a.b, both answered; a.b is stored under a
\* and the run renders.
C27_Witness ==
    /\ run.pc = "rendering"
    /\ run.args.create_values_file
    /\ run.templates = <<DocPrefix, DocNested>>
    /\ run.asked = <<Chars("a"), Chars("environment.A"), Chars("a.b")>>
    /\ EveryPromptAnswered(run)
    /\ run.values_map[Chars("a.b")] = TypedLine(3)
    /\ run.values_map[Chars("a")] = Chars("b: v3")

\* The paths read back: the keys of the batches and of the values files,
\* and their prefixes.
ProbedPaths ==
    {Chars("a"), Chars("a.b"), Chars("a.c"), Chars("environment"),
     Chars("environment.A"), Chars("environment.B")}

\* The node of a path in the values file on disk (an absent file has none).
NodeOnDisk(r, p) == lookup_yaml_path(load_values_yaml_if_exists(r.values_file), p)

\* C28 as stated: a prompt pass without --force asks for no key that has a
\* value in the values document, and every path that resolved in it before
\* the pass resolves to the same value after the pass.
C28_PassOnlyAdds ==
    [][(run.pc = "collected" /\ ~run.args.force) =>
         /\ \A i \in 1..Len(run'.asked) : ~NodeOnDisk(run, run'.asked[i]).some
         /\ \A p \in ProbedPaths :
              NodeOnDisk(run, p).some =>
                /\ NodeOnDisk(run', p).some
                /\ SameNode(NodeOnDisk(run', p).val, NodeOnDisk(run, p).val)]_vars

\* C28: a prompt pass without --force asks for no key that has a value in
\* the values document, and every path that resolved in it before the pass
\* and is not a dotted prefix of a key stored by the pass resolves to the
\* same value after the pass.
C28_PassKeepsOtherPaths ==
    [][(run.pc = "collected" /\ ~run.args.force) =>
         /\ \A i \in 1..Len(run'.asked) : ~NodeOnDisk(run, run'.asked[i]).some
         /\ \A p \in ProbedPaths :
              (/\ NodeOnDisk(run, p).some
               /\ \A i \in 1..Len(run'.prompted_values) :
                    ~IsDottedPrefix(p, run'.prompted_values[i][1]))
                => /\ NodeOnDisk(run', p).some
                   /\ SameNode(NodeOnDisk(run', p).val, NodeOnDisk(run, p).val)]_vars

\* C28 witness: the values file had a.c = 1; the pass without --force asked
\* for a.b and environment.A, not for a, and a.c is still 1.
C28_Witness ==
    /\ run.pc = "prompted"
    /\ run.args.create_values_file
    /\ ~run.args.force
    /\ run.templates = <<DocNested, DocPrefix>>
    /\ run.asked = <<Chars("a.b"), Chars("environment.A")>>
    /\ NodeOnDisk(run, Chars("a.c")).some
    /\ SameNode(NodeOnDisk(run, Chars("a.c")).val, YNum(1))
    /\ SameNode(NodeOnDisk(run, Chars("a.b")).val, YStr(TypedLine(1)))

\* The keys of a list stand in the order of their first occurrences in
\* the batch.
InFirstSeenOrder(templates, keys) ==
    Bind(FirstSeenOrder(templates), LAMBDA order :
      \A i, j \in 1..Len(keys) : i < j => PlaceIn(order, keys[i]) < PlaceIn(order, keys[j]))

\* The texts of a list ascend in byte order.
IsAscending(list) == \A i, j \in 1..Len(list) : i < j => StrLess(list[i], list[j])

\* C24 as stated: the report holds the missing env keys, then the missing
\* values paths, each list in the order of the keys' first occurrences in
\* the batch.
C24_FirstSeenOrder ==
    Resolved(run) =>
      /\ InFirstSeenOrder(run.templates,
                          [i \in 1..Len(run.missing_env) |->
                             env_var_values_path(run.missing_env[i])])
      /\ InFirstSeenOrder(run.templates, run.missing_values)

\* C24: the report holds the missing env keys, then the missing values
\* paths; the env keys ascend in the byte order of their text, and so do
\* the values paths, which under --value-file-only stand after the
\* ascending environment.<KEY> paths of the env keys without a node.
C24_AscendingOrder ==
    Resolved(run) =>
      LET n == IF run.args.value_file_only THEN Cardinality(UnresolvedEnvInFile(run)) ELSE 0
      IN /\ IsAscending(run.missing_env)
         /\ n <= Len(run.missing_values)
         /\ IsAscending(SubSeq(run.missing_values, 1, n))
         /\ IsAscending(SubSeq(run.missing_values, n + 1, Len(run.missing_values)))
         /\ \A i \in 1..n :
              run.missing_values[i] \in {env_var_values_path(k) : k \in run.env_vars}
         /\ \A i \in (n + 1)..Len(run.missing_values) :
              run.missing_values[i] \in run.values_paths
         /\ run.pc = "failed" =>
              run.report = Some([missing_env |-> run.missing_env,
                                 missing_values |-> run.missing_values])

\* C24 witness: under --value-file-only with nothing in the values file,
\* the keys occur in the order A, a.b, a, B and the report lists the env
\* paths ascending, then the values paths ascending.
C24_Witness ==
    /\ run.pc = "failed"
    /\ run.args.value_file_only
    /\ run.templates = <<DocMixed, DocValue>>
    /\ run.report.some
    /\ run.report.val.missing_env = <<>>
    /\ run.report.val.missing_values =
         <<env_var_values_path(KeyA), env_var_values_path(KeyB), Chars("a"), Chars("a.b")>>

\* C25: whenever the rendering pass runs, or has run, every values path
\* matched in a document of the batch is a key of values_map and every env
\* key matched is a key of env_map.
C25_RenderingMeetsNoUnresolvedKey ==
    (run.pc \in {"rendering", "done"} \/ run.rendered_outputs # <<>>) =>
      \A t \in 1..Len(run.templates) :
        Bind(captures_iter(run.templates[t]), LAMBDA caps :
          \A i \in 1..Len(caps) :
            IF caps[i].group = 1 THEN caps[i].key \in DOMAIN run.values_map
            ELSE caps[i].key \in DOMAIN run.env_map)

\* C25 witness: a batch with env keys and a values path rendering under
\* --value-file-only, every key resolved from the values file.
C25_Witness ==
    /\ run.pc = "rendering"
    /\ run.args.value_file_only
    /\ run.templates = <<DocMixed, DocEnv>>
    /\ Len(run.rendered_outputs) = 1
    /\ DOMAIN run.env_map = {KeyA, KeyB}
    /\ DOMAIN run.values_map = {Chars("a.b")}

====
